---- MODULE Spec2Model ----
(***************************************************************************)
(* Model of the movie bot: the SQLite store of database.py (tables videos, *)
(* movies, pending_movies) and the handlers of handlers.py that write it   *)
(* (channel_post_handler, handle_callback_query, handle_message) or read   *)
(* it (search_command, _search_and_send_results).                          *)
(*                                                                         *)
(* Text is modelled as a sequence of characters; a character is a string,  *)
(* and a non-ASCII code point is written as a name in capitals ("FOLDER"   *)
(* is U+1F4C1).  A table is the sequence of its rows in rowid order.       *)
(* A store call that raises sqlite3.Error is a flag of the action that     *)
(* makes the call.  The variables last, everDrafted, collided, retry and   *)
(* steps record the run; the handlers do not read them.                    *)
(***************************************************************************)
EXTENDS Integers, Sequences, FiniteSets, TLC

\* ------------------------------------------------------------------ bounds
MaxVideos == 2
MaxSteps == 7

\* ------------------------------------------------------------ input sets
Users == {1}
Chats == {100}
\* the media of the channel messages: message 1 is a video, message 2 a video
\* note, message 3 has neither; <<>> is None
Media ==
  {[message_id |-> 1, video |-> <<"f1">>, video_note |-> <<>>],
   [message_id |-> 2, video |-> <<>>, video_note |-> <<"f2">>],
   [message_id |-> 3, video |-> <<>>, video_note |-> <<>>]}
CodeA1 == <<"A", "1">>
CodeB2 == <<"B", "2">>
CodeInputs == {CodeA1, CodeB2}

Digits == {"0", "1", "2", "3", "4", "5", "6", "7", "8", "9"}
WordChars ==
  {"a","b","c","d","e","f","g","h","i","j","k","l","m",
   "n","o","p","q","r","s","t","u","v","w","x","y","z",
   "A","B","C","D","E","F","G","H","I","J","K","L","M",
   "N","O","P","Q","R","S","T","U","V","W","X","Y","Z"}
    \cup Digits \cup {"_"}
Whitespace == {" "}

CapPlain == <<"h", "i">>
CapA1 == <<"x", " ", "#", "A", "1">>
CapA1B2 == <<"#", "A", "1", " ", "#", "B", "2">>
Captions == {<<>>, CapPlain, CapA1, CapA1B2}

\* an optional value is <<>> (None) or <<v>>
Opt(S) == {<<>>} \cup {<<v>> : v \in S}

\* --------------------------------------------------------- text functions
RECURSIVE WordRunEnd(_, _)
\* index of the last character of the run of word characters starting at i
WordRunEnd(text, i) ==
  IF i < Len(text) /\ text[i + 1] \in WordChars
    THEN WordRunEnd(text, i + 1)
    ELSE i

RECURSIVE findall_hashtags(_, _)
\* re.findall(r'#\w+', text): left to right, non-overlapping, greedy
findall_hashtags(text, i) ==
  IF i > Len(text) THEN <<>>
  ELSE IF text[i] = "#" /\ i < Len(text) /\ text[i + 1] \in WordChars
    THEN LET e == WordRunEnd(text, i + 1)
         IN  <<SubSeq(text, i, e)>> \o findall_hashtags(text, e + 1)
    ELSE findall_hashtags(text, i + 1)

RECURSIVE join(_, _)
\* sep.join(parts)
join(sep, parts) ==
  IF parts = <<>> THEN <<>>
  ELSE IF Len(parts) = 1 THEN parts[1]
  ELSE parts[1] \o sep \o join(sep, Tail(parts))

extract_hashtags_or_text(text) ==
  IF findall_hashtags(text, 1) = <<>> THEN text
  ELSE join(<<" ">>, findall_hashtags(text, 1))

extract_hashtags_as_codes(text) ==
  IF text = <<>> THEN <<>> ELSE join(<<" ">>, findall_hashtags(text, 1))

RECURSIVE split_from(_, _, _)
\* str.split(): the maximal runs of non-whitespace, cur is the run so far
split_from(text, i, cur) ==
  IF i > Len(text) THEN (IF cur = <<>> THEN <<>> ELSE <<cur>>)
  ELSE IF text[i] \in Whitespace
    THEN (IF cur = <<>> THEN <<>> ELSE <<cur>>) \o split_from(text, i + 1, <<>>)
    ELSE split_from(text, i + 1, Append(cur, text[i]))

split(text) == split_from(text, 1, <<>>)

RECURSIVE remove_char(_, _)
\* text.replace(ch, '') for a one-character ch
remove_char(text, ch) ==
  IF text = <<>> THEN <<>>
  ELSE IF Head(text) = ch THEN remove_char(Tail(text), ch)
  ELSE <<Head(text)>> \o remove_char(Tail(text), ch)

clean_code_keep(code) == code

\* clean_code = code.replace('#', '')
clean_code(code) == remove_char(code, "#")

\* ------------------------------------------------- texts of the user side
\* the labels of the reply keyboards, as handle_message compares them
BtnCategories ==
  <<"FOLDER", " ", "K", "a", "t", "e", "g", "o", "r", "i", "y", "a", " ",
    "b", "o", "'", "y", "i", "c", "h", "a", " ", "k", "o", "'", "r", "i",
    "s", "h">>
\* the five labels of the main menu: categories, search, help, about, start
MenuLabels ==
  {BtnCategories,
     <<"GLASS", " ", "K", "o", "d", " ", "b", "o", "'", "y", "i", "c", "h",
       "a", " ", "q", "i", "d", "i", "r", "i", "s", "h">>,
     <<"BOOKS", " ", "Y", "o", "r", "d", "a", "m">>,
     <<"INFO", "VS16", " ", "M", "a", "'", "l", "u", "m", "o", "t">>,
     <<"HOUSE", " ", "A", "s", "o", "s", "i", "y", " ", "m", "e", "n", "y",
       "u">>}
BtnNewCategory ==
  <<"PLUS", " ", "Y", "a", "n", "g", "i", " ", "k", "a", "t", "e", "g",
    "o", "r", "i", "y", "a", " ", "q", "o", "'", "s", "h", "i", "s", "h">>
BtnBackToGenres ==
  <<"LEFT", "VS16", " ", "J", "a", "n", "r", "l", "a", "r", "g", "a", " ",
    "q", "a", "y", "t", "i", "s", "h">>
BtnPrevPage ==
  <<"LEFT", "VS16", " ", "O", "l", "d", "i", "n", "g", "i", " ", "s", "a",
    "h", "i", "f", "a">>
BtnNextPage ==
  <<"RIGHT", "VS16", " ", "K", "e", "y", "i", "n", "g", "i", " ", "s", "a",
    "h", "i", "f", "a">>
BtnHind ==
  <<"FOLDER", " ", "H", "i", "n", "d", " ", "k", "i", "n", "o", "l", "a",
    "r">>
TextDune ==
  <<"D", "u", "n", "e">>
TextSeven ==
  <<"7">>
TextBlank ==
  <<" ">>

\* the prefixes excluded from the direct code search
SearchExcluded ==
  {<<"FOLDER">>, <<"GLASS">>, <<"BOOKS">>, <<"INFO", "VS16">>, <<"HOUSE">>,
   <<"LEFT", "VS16">>, <<"CLAPPER">>}
GenrePrefix == <<"FOLDER", " ">>
MoviePrefix == <<"CLAPPER", " ">>

\* the texts a user sends
Texts == {TextDune, TextBlank, BtnHind, BtnNewCategory}

\* str.startswith
startswith(text, prefix) ==
  Len(text) >= Len(prefix) /\ SubSeq(text, 1, Len(prefix)) = prefix

\* str.isdigit: not empty and every character a digit
isdigit(text) == text # <<>> /\ \A i \in 1..Len(text) : text[i] \in Digits

\* sub in text
contains(text, sub) ==
  \E i \in 1..(Len(text) - Len(sub) + 1) : SubSeq(text, i, i + Len(sub) - 1) = sub

RECURSIVE lstrip(_)
lstrip(text) ==
  IF text # <<>> /\ Head(text) \in Whitespace THEN lstrip(Tail(text)) ELSE text

RECURSIVE rstrip(_)
rstrip(text) ==
  IF text # <<>> /\ text[Len(text)] \in Whitespace
    THEN rstrip(SubSeq(text, 1, Len(text) - 1))
    ELSE text

\* str.strip()
strip(text) == rstrip(lstrip(text))

RECURSIVE replace(_, _, _)
\* text.replace(old, new) for a non-empty old: every occurrence, left to right
replace(text, old, new) ==
  IF text = <<>> THEN <<>>
  ELSE IF startswith(text, old)
    THEN new \o replace(SubSeq(text, Len(old) + 1, Len(text)), old, new)
    ELSE <<Head(text)>> \o replace(Tail(text), old, new)

RECURSIVE before_first(_, _)
\* text.split(sep)[0]: the part of text before the first occurrence of sep
before_first(text, sep) ==
  IF text = <<>> \/ startswith(text, sep) THEN <<>>
  ELSE <<Head(text)>> \o before_first(Tail(text), sep)

\* ------------------------------------------------------------ the store
\* videos row: chat_id, message_id, file_id, caption, codes, date (the
\* reading of the clock at the save, later than the readings stored before)
\* movies row: code, title, category, channel_message_id, channel_id, file_id
\* pending_movies row: code, channel_message_id, channel_id, file_id, caption

VARIABLES
  videos,          \* table videos (no UNIQUE constraint beside the rowid)
  movies,          \* table movies (code UNIQUE)
  pending_table,   \* table pending_movies (no UNIQUE constraint beside the rowid)
  pending_movies,  \* BotHandlers.pending_movies: user id -> curation session
  user_states,     \* BotHandlers.user_states: user id -> browse cursor
  last,            \* the handler that ran last, its input and its outcome
  everDrafted,     \* history: codes for which a pending row was ever written
  collided,        \* history: <<code, cause>>, the code was drafted over its entry
                   \* ("reingest") or its commit left the drafts ("halfdone")
  retry,           \* history: the commit that failed or kept its draft, if any
  steps            \* history: the number of handler runs so far

vars == <<videos, movies, pending_table, pending_movies, user_states, last,
          everDrafted, collided, retry, steps>>

put_shared(d, k, v) == [x \in DOMAIN d \cup {k} |-> v]

put_keep(d, k, v) ==
  IF k \in DOMAIN d THEN d ELSE [x \in DOMAIN d \cup {k} |-> IF x = k THEN v ELSE d[x]]

\* a Python dict is a function on its keys
put(d, k, v) == [x \in DOMAIN d \cup {k} |-> IF x = k THEN v ELSE d[x]]
del(d, k) == [x \in DOMAIN d \ {k} |-> d[x]]

RowsOf(table, code) == {i \in 1..Len(table) : table[i].code = code}
InPending(code) == RowsOf(pending_table, code) # {}
InCatalog(code) == RowsOf(movies, code) # {}

\* INSERT OR REPLACE INTO videos: the only key is the autoincrement id, so
\* no row conflicts and the row is appended
save_video(table, chat_id, message_id, file_id, caption, date) ==
  Append(table, [chat_id |-> chat_id, message_id |-> message_id,
                 file_id |-> file_id, caption |-> caption,
                 codes |-> extract_hashtags_as_codes(caption), date |-> date])

\* datetime.now() at a save into the table
now(table) == Len(table) + 1

\* SELECT * FROM movies WHERE code = ? ; fetchone()
get_movie_by_code(table, code) ==
  IF RowsOf(table, code) = {} THEN <<>>
  ELSE <<table[CHOOSE i \in RowsOf(table, code) :
                 \A j \in RowsOf(table, code) : i <= j]>>

add_movie_append(table, code, title, category, channel_message_id, channel_id, file_id) ==
  Append(table,
         [code |-> code, title |-> title, category |-> category,
          channel_message_id |-> channel_message_id,
          channel_id |-> channel_id, file_id |-> file_id])

\* INSERT OR REPLACE INTO movies: code is UNIQUE, the row of the same code
\* is deleted and the new row inserted
add_movie(table, code, title, category, channel_message_id, channel_id, file_id) ==
  LET Other(row) == row.code # code
  IN  Append(SelectSeq(table, Other),
             [code |-> code, title |-> title, category |-> category,
              channel_message_id |-> channel_message_id,
              channel_id |-> channel_id, file_id |-> file_id])

\* INSERT OR REPLACE INTO pending_movies: code is not UNIQUE, the row is appended
add_pending_movie(table, code, channel_message_id, channel_id, file_id, caption) ==
  Append(table,
         [code |-> code, channel_message_id |-> channel_message_id,
          channel_id |-> channel_id, file_id |-> file_id, caption |-> caption])

\* the row of the highest rowid among the rows of a code: the one written last
newest_row(table, code) ==
  IF RowsOf(table, code) = {} THEN <<>>
  ELSE <<table[CHOOSE i \in RowsOf(table, code) :
                 \A j \in RowsOf(table, code) : i >= j]>>

\* SELECT * FROM pending_movies WHERE code = ? ; fetchone(): the table is
\* scanned in rowid order, the row of the lowest rowid is returned
get_pending_movie_by_code(table, code) ==
  IF RowsOf(table, code) = {} THEN <<>>
  ELSE <<table[CHOOSE i \in RowsOf(table, code) :
                 \A j \in RowsOf(table, code) : i <= j]>>

RECURSIVE remove_pending_movie_one(_, _)
remove_pending_movie_one(table, code) ==
  IF table = <<>> THEN <<>>
  ELSE IF Head(table).code = code THEN Tail(table)
  ELSE <<Head(table)>> \o remove_pending_movie_one(Tail(table), code)

\* DELETE FROM pending_movies WHERE code = ?
remove_pending_movie(table, code) ==
  LET Other(row) == row.code # code
  IN  SelectSeq(table, Other)

\* ------------------------------------------------------------- the indexer
warn_existing_skip(table, existing_movie, drafted) ==
  IF existing_movie # <<>> THEN table ELSE drafted

\* the check of the code against the catalog before the draft is written: an
\* existing entry is printed as a warning, the draft is written all the same
warn_existing(table, existing_movie, drafted) == drafted

RECURSIVE add_pending_movies(_, _, _, _, _, _, _, _)
\* the loop of channel_post_handler over code_list from position i: one
\* add_pending_movie per code; the calls at the positions in failing raise
\* sqlite3.Error, which add_pending_movie swallows (the row is not written)
add_pending_movies(table, code_list, i, failing, message_id, chat_id, file_id, caption) ==
  IF i > Len(code_list) THEN table
  ELSE add_pending_movies(
         IF i \in failing THEN table
         ELSE warn_existing(table,
                            get_movie_by_code(movies, clean_code(code_list[i])),
                            add_pending_movie(table, clean_code(code_list[i]),
                                              message_id, chat_id, file_id, caption)),
         code_list, i + 1, failing, message_id, chat_id, file_id, caption)

\* the codes whose pending row was written by the loop
WrittenCodes(code_list, failing) ==
  {clean_code(code_list[i]) : i \in (1..Len(code_list)) \ failing}

Init ==
  /\ videos = <<>>
  /\ movies = <<>>
  /\ pending_table = <<>>
  /\ pending_movies = <<>>
  /\ user_states = <<>>
  /\ last = [op |-> "none"]
  /\ everDrafted = {}
  /\ collided = {}
  /\ retry = <<>>
  /\ steps = 0

\* channel_post_handler on a post without video and without video note
IngestNotMedia(message_id) ==
  /\ last' = [op |-> "ingest", result |-> "NotMedia", message_id |-> message_id]
  /\ UNCHANGED <<videos, movies, pending_table, pending_movies, user_states,
                 everDrafted, collided, retry>>

\* channel_post_handler on a post with media whose save_video fails
IngestSaveFails(message_id) ==
  /\ last' = [op |-> "ingest", result |-> "PersistenceFailure",
              message_id |-> message_id]
  /\ UNCHANGED <<videos, movies, pending_table, pending_movies, user_states,
                 everDrafted, collided, retry>>

\* channel_post_handler on a post with media whose save_video succeeds; the
\* add_pending_movie calls at the positions in failing fail
IngestSaved(chat_id, message_id, file_id, caption, failing) ==
  LET codes == extract_hashtags_as_codes(caption)
      code_list == IF codes # <<>> THEN split(codes) ELSE <<>>
      written == WrittenCodes(code_list, failing)
  IN  /\ Len(videos) < MaxVideos
      /\ failing \subseteq 1..Len(code_list)
      /\ videos' = save_video(videos, chat_id, message_id, file_id, caption,
                               now(videos))
      /\ pending_table' =
           add_pending_movies(pending_table, code_list, 1, failing,
                              message_id, chat_id, file_id, caption)
      /\ everDrafted' = everDrafted \cup written
      /\ collided' = collided \cup {<<c, "reingest">> : c \in {w \in written : InCatalog(w)}}
      /\ last' = [op |-> "ingest", result |-> "Indexed",
                  message_id |-> message_id, failing |-> failing]
      /\ UNCHANGED <<movies, pending_movies, user_states, retry>>

\* video = message.video or message.video_note
media_of_default(mvideo, mnote) ==
  IF mvideo # <<>> THEN mvideo ELSE IF mnote # <<>> THEN mnote ELSE <<"f0">>

media_of(mvideo, mnote) == IF mvideo # <<>> THEN mvideo ELSE mnote

channel_post_handler_unchecked(chat_id, message, mcaption, saveOk, failing) ==
  LET video == media_of(message.video, message.video_note)
      caption == IF mcaption = <<>> THEN <<>> ELSE mcaption[1]
      codes == extract_hashtags_as_codes(caption)
      code_list == IF codes # <<>> THEN split(codes) ELSE <<>>
  IN  IF video = <<>> THEN failing = {} /\ saveOk /\ IngestNotMedia(message.message_id)
      ELSE IF ~saveOk
        THEN /\ failing = {}
             /\ pending_table' =
                  add_pending_movies(pending_table, code_list, 1, failing,
                                     message.message_id, chat_id, video[1], caption)
             /\ everDrafted' = everDrafted \cup WrittenCodes(code_list, failing)
             /\ last' = [op |-> "ingest", result |-> "PersistenceFailure",
                         message_id |-> message.message_id]
             /\ UNCHANGED <<videos, movies, pending_movies, user_states,
                            collided, retry>>
      ELSE IngestSaved(chat_id, message.message_id, video[1], caption, failing)

\* channel_post_handler for the post message of chat chat_id with caption
\* mcaption (<<>> is None); saveOk says whether save_video goes through (the
\* flags of calls the handler does not reach are fixed)
channel_post_handler(chat_id, message, mcaption, saveOk, failing) ==
  LET video == media_of(message.video, message.video_note)
      caption == IF mcaption = <<>> THEN <<>> ELSE mcaption[1]
  IN  IF video = <<>> THEN failing = {} /\ saveOk /\ IngestNotMedia(message.message_id)
      ELSE IF ~saveOk THEN failing = {} /\ IngestSaveFails(message.message_id)
      ELSE IngestSaved(chat_id, message.message_id, video[1], caption, failing)

\* ------------------------------------------------- the curation workflow
\* /addmovie: lists the pending rows, writes nothing
addmovie_command(user_id) ==
  /\ last' = [op |-> "addmovie", user |-> user_id,
              result |-> IF pending_table = <<>> THEN "Empty" ELSE "Listed"]
  /\ UNCHANGED <<videos, movies, pending_table, pending_movies, user_states,
                 everDrafted, collided, retry>>

new_session_at_category(code, pending_movie) ==
  [code |-> code,
   channel_message_id |-> pending_movie.channel_message_id,
   channel_id |-> pending_movie.channel_id,
   file_id |-> pending_movie.file_id,
   pending_movie |-> TRUE,
   step |-> "category"]

\* the session handle_callback_query stores for add_movie_<code>
new_session(code, pending_movie) ==
  [code |-> code,
   channel_message_id |-> pending_movie.channel_message_id,
   channel_id |-> pending_movie.channel_id,
   file_id |-> pending_movie.file_id,
   pending_movie |-> TRUE,
   step |-> "title"]

can_select_new_only(pending_movie, existing_movie) ==
  pending_movie # <<>> /\ existing_movie = <<>>

\* the test of handle_callback_query on the pending row it read: a code
\* is selectable when it has a pending row, cataloged already or not
can_select(pending_movie, existing_movie) == pending_movie # <<>>

\* handle_callback_query with data add_movie_<code>; readOk is FALSE when the
\* read of the pending row raises (get_pending_movie_by_code returns None)
handle_callback_query(user_id, code, readOk) ==
  LET pending_movie == IF readOk THEN get_pending_movie_by_code(pending_table, code)
                       ELSE <<>>
  IN  /\ IF ~can_select(pending_movie, get_movie_by_code(movies, code))
           THEN /\ last' = [op |-> "select", user |-> user_id, code |-> code,
                            result |-> "NotPending", abandoned |-> <<>>]
                /\ UNCHANGED pending_movies
           ELSE /\ pending_movies' =
                     put(pending_movies, user_id, new_session(code, pending_movie[1]))
                /\ last' = [op |-> "select", user |-> user_id, code |-> code,
                            result |-> "Selected",
                            abandoned |-> IF user_id \in DOMAIN pending_movies
                                            THEN <<pending_movies[user_id]>>
                                            ELSE <<>>]
      /\ UNCHANGED <<videos, movies, pending_table, user_states,
                     everDrafted, collided, retry>>

\* the branch of handle_message a text takes for a user, in the order of the
\* if/elif chain; "session" is the code after the chain (line 702)
Branch(user_id, text) ==
  IF Len(text) <= 10 /\ isdigit(text)
     /\ ~ \E pre \in SearchExcluded : startswith(text, pre)
    THEN "search"
  ELSE IF text \in MenuLabels
    THEN "menu"
  ELSE IF startswith(text, GenrePrefix) /\ user_id \in DOMAIN pending_movies
    THEN IF pending_movies[user_id].step = "category" THEN "commit_genre"
         ELSE "session"
  ELSE IF text = BtnNewCategory /\ user_id \in DOMAIN pending_movies
    THEN IF pending_movies[user_id].step = "category" THEN "new_category"
         ELSE "session"
  ELSE IF text = BtnBackToGenres THEN "back"
  ELSE IF startswith(text, GenrePrefix) THEN "genre"
  ELSE IF startswith(text, MoviePrefix)
    THEN IF contains(text, <<"(">>) /\ contains(text, <<")">>) THEN "movie_button"
         ELSE "session"
  ELSE IF text = BtnPrevPage THEN "prev"
  ELSE IF text = BtnNextPage THEN "next"
  ELSE "session"

commit_pending_eager(table, code, success, removed) ==
  IF removed THEN remove_pending_movie(table, code) ELSE table

\* the pending rows after the commit step: removed only when the catalog
\* write succeeded, and left when the delete itself fails
commit_pending(table, code, success, removed) ==
  IF success /\ removed THEN remove_pending_movie(table, code) ELSE table

commit_session_always(sessions, user_id, success) == del(sessions, user_id)

\* the sessions after the commit step: the user's session is deleted when
\* the catalog write succeeded
commit_session(sessions, user_id, success) ==
  IF success THEN del(sessions, user_id) ELSE sessions

commit_movies_from_session(table, movie_data, category, pending_movie, addOk) ==
  IF ~addOk THEN table
  ELSE IF pending_movie = <<>>
    THEN add_movie(table, movie_data.code, movie_data.title, category,
                   movie_data.channel_message_id, movie_data.channel_id,
                   movie_data.file_id)
  ELSE add_movie(table, movie_data.code, movie_data.title, category,
                 pending_movie[1].channel_message_id,
                 pending_movie[1].channel_id,
                 pending_movie[1].file_id)

\* the catalog after the commit step: nothing is written when the pending
\* row is missing, else add_movie with the collected title, the category and
\* the media fields of the pending row
commit_movies(table, movie_data, category, pending_movie, addOk) ==
  IF pending_movie = <<>> THEN table
  ELSE IF addOk
    THEN add_movie(table, movie_data.code, movie_data.title, category,
                   pending_movie[1].channel_message_id,
                   pending_movie[1].channel_id,
                   pending_movie[1].file_id)
  ELSE table

\* the code of the recorded commit that is still to be retried
retried_codes(r) == {r[i].attempt.code : i \in 1..Len(r)}

\* the outcome of the commit step
commit_result(pending_movie, addOk, rmOk) ==
  IF pending_movie = <<>> THEN "DraftMissing"
  ELSE IF ~addOk THEN "PersistenceFailure"
  ELSE IF ~rmOk THEN "CommittedDraftKept"
  ELSE "Committed"

\* the commit step of handle_message (category chosen, or new category name
\* entered): readOk, addOk, rmOk say whether the read of the pending row, the
\* catalog write and the delete of the pending rows go through (the flags of
\* calls the handler does not reach are fixed to TRUE)
Commit(user_id, category, readOk, addOk, rmOk) ==
  LET movie_data == pending_movies[user_id]
      title == movie_data.title
      code == movie_data.code
      pending_movie == IF readOk THEN get_pending_movie_by_code(pending_table, code)
                       ELSE <<>>
      this == [code |-> code, title |-> title, category |-> category]
      result == commit_result(pending_movie, addOk, rmOk)
      success == pending_movie # <<>> /\ addOk
  IN  /\ pending_movie = <<>> => addOk /\ rmOk
      /\ ~addOk => rmOk
      /\ movies' = commit_movies(movies, movie_data, category, pending_movie, addOk)
      /\ pending_table' = commit_pending(pending_table, code, success, rmOk)
      /\ pending_movies' = commit_session(pending_movies, user_id, success)
      /\ collided' = IF ~success THEN collided
                     ELSE IF rmOk THEN {p \in collided : p[1] # code}
                     ELSE collided \cup {<<code, "halfdone">>}
      /\ retry' = IF result \in {"PersistenceFailure", "CommittedDraftKept"}
                    THEN <<[attempt |-> this, result |-> result]>>
                  ELSE IF result = "Committed" /\ code \in retried_codes(retry)
                    THEN <<>>
                  ELSE retry
      /\ last' = [op |-> "commit", user |-> user_id, code |-> code,
                  title |-> title, category |-> category, result |-> result,
                  draft |-> pending_movie,
                  replaced |-> get_movie_by_code(movies, code),
                  newest |-> newest_row(pending_table, code),
                  retried |-> IF retry # <<>> /\ retry[1].attempt = this
                                THEN retry[1].result ELSE "no"]
      /\ UNCHANGED <<videos, user_states, everDrafted>>

\* handle_message, a category button while the session is at step category
MsgCommitGenre(user_id, text, readOk, addOk, rmOk) ==
  /\ Branch(user_id, text) = "commit_genre"
  /\ Commit(user_id, replace(text, GenrePrefix, <<>>), readOk, addOk, rmOk)

\* handle_message, the new-category button while the session is at step category
MsgNewCategory(user_id, text) ==
  /\ Branch(user_id, text) = "new_category"
  /\ pending_movies' = [pending_movies EXCEPT ![user_id].step = "new_category"]
  /\ last' = [op |-> "new_category", user |-> user_id, text |-> text]
  /\ UNCHANGED <<videos, movies, pending_table, user_states,
                 everDrafted, collided, retry>>

\* the session after the title step stored the title
with_title(movie_data, message_text) ==
  [f \in DOMAIN movie_data \cup {"title"} |->
     IF f = "title" THEN message_text
     ELSE IF f = "step" THEN "category"
     ELSE movie_data[f]]

\* handle_message, free text while the session is at step title
MsgTitle(user_id, message_text) ==
  /\ Branch(user_id, message_text) = "session"
  /\ user_id \in DOMAIN pending_movies
  /\ pending_movies[user_id].step = "title"
  /\ IF message_text = <<>>
       THEN /\ UNCHANGED pending_movies
            /\ last' = [op |-> "title", user |-> user_id, text |-> message_text,
                        result |-> "Rejected"]
       ELSE /\ pending_movies' =
                 put(pending_movies, user_id,
                     with_title(pending_movies[user_id], message_text))
            /\ last' = [op |-> "title", user |-> user_id, text |-> message_text,
                        result |-> "Stored"]
  /\ UNCHANGED <<videos, movies, pending_table, user_states,
                 everDrafted, collided, retry>>

\* handle_message, free text while the session is at step category
MsgCategoryText(user_id, message_text) ==
  /\ Branch(user_id, message_text) = "session"
  /\ user_id \in DOMAIN pending_movies
  /\ pending_movies[user_id].step = "category"
  /\ last' = [op |-> "category_text", user |-> user_id, text |-> message_text,
              result |-> "Rejected"]
  /\ UNCHANGED <<videos, movies, pending_table, pending_movies, user_states,
                 everDrafted, collided, retry>>

\* handle_message, free text while the session is at step new_category
MsgNewCategoryName(user_id, message_text, readOk, addOk, rmOk) ==
  /\ Branch(user_id, message_text) = "session"
  /\ user_id \in DOMAIN pending_movies
  /\ pending_movies[user_id].step = "new_category"
  /\ IF message_text = <<>>
       THEN /\ readOk /\ addOk /\ rmOk
            /\ last' = [op |-> "new_category_name", user |-> user_id,
                        text |-> message_text, result |-> "Rejected"]
            /\ UNCHANGED <<videos, movies, pending_table, pending_movies,
                           user_states, everDrafted, collided, retry>>
       ELSE Commit(user_id, message_text, readOk, addOk, rmOk)

\* handle_message, text outside the chain from a user without a session
MsgNoSession(user_id, message_text) ==
  /\ Branch(user_id, message_text) = "session"
  /\ user_id \notin DOMAIN pending_movies
  /\ last' = [op |-> "help_hint", user |-> user_id, text |-> message_text]
  /\ UNCHANGED <<videos, movies, pending_table, pending_movies, user_states,
                 everDrafted, collided, retry>>

\* ------------------------------------------------------------ the resolver

\* LIKE folds the case of the ASCII letters
Folded ==
  LET lower ==
      <<"a","b","c","d","e","f","g","h","i","j","k","l","m",
        "n","o","p","q","r","s","t","u","v","w","x","y","z">>
      upper ==
      <<"A","B","C","D","E","F","G","H","I","J","K","L","M",
        "N","O","P","Q","R","S","T","U","V","W","X","Y","Z">>
  IN  [ch \in {lower[i] : i \in 1..26} |->
         upper[CHOOSE i \in 1..26 : lower[i] = ch]]
fold_text(text) ==
  [i \in 1..Len(text) |->
     IF text[i] \in DOMAIN Folded THEN Folded[text[i]] ELSE text[i]]

\* codes LIKE '%hashtag%' (the codes searched hold no '%' and no '_')
like(text, hashtag) == contains(fold_text(text), fold_text(hashtag))

\* the orders in which a scan can visit n rows
Perms(n) == {f \in [1..n -> 1..n] : \A i, j \in 1..n : f[i] = f[j] => i = j}

RECURSIVE order_by_date_desc(_)
order_by_visit(rows) == rows

\* ORDER BY date DESC
order_by_date_desc(rows) ==
  IF rows = <<>> THEN <<>>
  ELSE LET k == CHOOSE i \in 1..Len(rows) :
                  \A j \in 1..Len(rows) : rows[i].date >= rows[j].date
           rest == [i \in 1..(Len(rows) - 1) |->
                      IF i < k THEN rows[i] ELSE rows[i + 1]]
       IN  <<rows[k]>> \o order_by_date_desc(rest)

\* the rows of the table that the WHERE clause of the search selects
matching(table, hashtag) ==
  LET Match(row) == like(row.codes, hashtag)
  IN  SelectSeq(table, Match)

\* the visit of the rows by rowid
by_rowid(rows) == [i \in 1..Len(rows) |-> i]

\* SELECT * FROM videos WHERE codes LIKE ? ORDER BY date DESC; scan is the
\* order in which the engine visits the selected rows
search_channel_by_hashtag(table, hashtag, scan) ==
  LET rows == matching(table, hashtag)
  IN  order_by_date_desc([i \in 1..Len(rows) |-> rows[scan[i]]])

hashtag_of(code) == <<"#">> \o code

\* _validate_movie_code: current_movie is the second read of the code
validate_movie_code(movie, current_movie) ==
  /\ current_movie # <<>>
  /\ current_movie[1].title = movie.title
  /\ current_movie[1].category = movie.category
  /\ current_movie[1].code = movie.code

\* _validate_channel_code: current_channel_results is the second search
validate_channel_code(channel_result, current_channel_results) ==
  \E i \in 1..Len(current_channel_results) :
    /\ current_channel_results[i].chat_id = channel_result.chat_id
    /\ current_channel_results[i].message_id = channel_result.message_id

\* channel_result.get('codes') and f"#{code}" in channel_result.get('codes', '')
carries(codes, hashtag) == codes # <<>> /\ contains(codes, hashtag)

RECURSIVE first_valid(_, _, _, _)
\* the loop over channel_results from position i: the first result that
\* carries the hashtag and validates; the second search of the positions in
\* stale raises sqlite3.Error and returns no row
first_valid(channel_results, hashtag, stale, i) ==
  IF i > Len(channel_results) THEN <<>>
  ELSE IF /\ carries(channel_results[i].codes, hashtag)
          /\ validate_channel_code(channel_results[i],
                                   IF i \in stale THEN <<>> ELSE channel_results)
       THEN <<channel_results[i]>>
  ELSE first_valid(channel_results, hashtag, stale, i + 1)

Prefixes == <<"M", "A", "C", "D", "H", "S", "F", "T">>

can_guess_digits(code) == isdigit(code)

\* code.isdigit() and len(code) <= 3 and not code.startswith('0')
can_guess(code) == isdigit(code) /\ Len(code) <= 3 /\ ~startswith(code, <<"0">>)

RECURSIVE guess_movie(_, _, _)
\* the first loop over the prefixes from position i: hit is the first entry
\* found, tried the lookups made
guess_movie(table, code, i) ==
  IF i > Len(Prefixes) THEN [hit |-> <<>>, tried |-> <<>>]
  ELSE LET full_code == <<Prefixes[i]>> \o code
           movie == get_movie_by_code(table, full_code)
           rest == guess_movie(table, code, i + 1)
       IN  IF movie # <<>>
           THEN [hit |-> movie, tried |-> <<<<"movie", full_code>>>>]
           ELSE [hit |-> rest.hit, tried |-> <<<<"movie", full_code>>>> \o rest.tried]

RECURSIVE first_carrying(_, _, _)
first_carrying(channel_results, hashtag, i) ==
  IF i > Len(channel_results) THEN <<>>
  ELSE IF carries(channel_results[i].codes, hashtag) THEN <<channel_results[i]>>
  ELSE first_carrying(channel_results, hashtag, i + 1)

RECURSIVE guess_video(_, _, _)
\* the second loop over the prefixes from position i
guess_video(table, code, i) ==
  IF i > Len(Prefixes) THEN [hit |-> <<>>, tried |-> <<>>]
  ELSE LET full_code == <<Prefixes[i]>> \o code
           channel_results ==
             search_channel_by_hashtag(
               table, hashtag_of(full_code),
               by_rowid(matching(table, hashtag_of(full_code))))
           video == first_carrying(channel_results, hashtag_of(full_code), 1)
           rest == guess_video(table, code, i + 1)
       IN  IF video # <<>>
           THEN [hit |-> video, tried |-> <<<<"video", full_code>>>>]
           ELSE [hit |-> rest.hit, tried |-> <<<<"video", full_code>>>> \o rest.tried]

raw_wanted_always(results) == TRUE

\* if not results: the channel videos are searched only if no movie was found
raw_wanted(results) == results = <<>>

\* the results of _search_and_send_results for code and the prefixed lookups
\* it made; flags says which store calls of the exact lookups go through
\* (read, reread: the two reads of the entry; fetch: the search of the
\* videos; stale: the results whose second search fails) and the order in
\* which that search visits its rows
resolve(mtable, vtable, code, flags) ==
  LET movie == IF flags.read THEN get_movie_by_code(mtable, code) ELSE <<>>
      current_movie ==
        IF flags.reread THEN get_movie_by_code(mtable, code) ELSE <<>>
      valid == movie # <<>> /\ validate_movie_code(movie[1], current_movie)
      movies_found ==
        IF valid THEN <<[type |-> "movie", row |-> movie[1]]>> ELSE <<>>
      channel_results ==
        IF raw_wanted(movies_found) /\ flags.fetch
        THEN search_channel_by_hashtag(vtable, hashtag_of(code), flags.scan)
        ELSE <<>>
      video == first_valid(channel_results, hashtag_of(code), flags.stale, 1)
      results ==
        movies_found
          \o (IF video # <<>> THEN <<[type |-> "video", row |-> video[1]]>>
              ELSE <<>>)
      guessed_movie == guess_movie(mtable, code, 1)
      guessed_video == guess_video(vtable, code, 1)
      mismatch == movie # <<>> /\ ~valid
  IN  IF results # <<>>
        THEN [results |-> results, tried |-> <<>>, mismatch |-> mismatch]
      ELSE IF ~can_guess(code)
        THEN [results |-> <<>>, tried |-> <<>>, mismatch |-> mismatch]
      ELSE IF guessed_movie.hit # <<>>
        THEN [results |-> <<[type |-> "movie", row |-> guessed_movie.hit[1]]>>,
              tried |-> guessed_movie.tried, mismatch |-> mismatch]
      ELSE [results |->
              IF guessed_video.hit # <<>>
              THEN <<[type |-> "video", row |-> guessed_video.hit[1]]>>
              ELSE <<>>,
            tried |-> guessed_movie.tried \o guessed_video.tried,
            mismatch |-> mismatch]

\* the store calls of the exact lookups that a call for code reaches, given
\* the flags of the calls before them (the flags of the others are fixed)
reached(code, flags) ==
  LET entry == flags.read /\ get_movie_by_code(movies, code) # <<>>
      found == entry /\ flags.reread
      hits == IF found \/ ~flags.fetch THEN 0
              ELSE Len(matching(videos, hashtag_of(code)))
  IN  /\ ~entry => flags.reread
      /\ found => flags.fetch
      /\ flags.stale \subseteq 1..hits

\* _search_and_send_results: reads the store, sends what it found
search_and_send_results(user_id, code, flags) ==
  LET found == resolve(movies, videos, code, flags)
      ok == flags.read /\ flags.reread /\ flags.fetch /\ flags.stale = {}
  IN  /\ reached(code, flags)
      /\ last' = [op |-> "search", user |-> user_id, code |-> code, ok |-> ok,
                  mismatch |-> found.mismatch, results |-> found.results,
                  tried |-> found.tried,
                  before |-> IF last.op = "search" /\ last.code = code
                             THEN <<[ok |-> last.ok, results |-> last.results]>>
                             ELSE <<>>]
      /\ UNCHANGED <<videos, movies, pending_table, pending_movies, user_states,
                     everDrafted, collided, retry>>

\* the flags of a handler run that makes no store call
NoCalls ==
  [read |-> TRUE, reread |-> TRUE, fetch |-> TRUE, stale |-> {}, scan |-> <<>>]

\* /search: context.args is <<>> or holds the code
search_command(user_id, args, flags) ==
  IF args = <<>>
  THEN /\ flags = NoCalls
       /\ last' = [op |-> "search_usage", user |-> user_id]
       /\ UNCHANGED <<videos, movies, pending_table, pending_movies,
                      user_states, everDrafted, collided, retry>>
  ELSE search_and_send_results(user_id, args[1], flags)

\* handle_message, a text of at most ten digits
MsgSearch(user_id, text, flags) ==
  /\ Branch(user_id, text) = "search"
  /\ search_and_send_results(user_id, text, flags)

\* ----------------------------------------------------------- the navigation
\* the characters of a code in the order of their code points: SQLite compares
\* TEXT under the BINARY collation, byte by byte
Ord ==
  LET order ==
      <<"0","1","2","3","4","5","6","7","8","9",
        "A","B","C","D","E","F","G","H","I","J","K","L","M",
        "N","O","P","Q","R","S","T","U","V","W","X","Y","Z",
        "_",
        "a","b","c","d","e","f","g","h","i","j","k","l","m",
        "n","o","p","q","r","s","t","u","v","w","x","y","z">>
  IN  [ch \in WordChars |-> CHOOSE i \in 1..Len(order) : order[i] = ch]

RECURSIVE code_before(_, _)
\* a < b under the BINARY collation: the first differing character decides, a
\* proper prefix comes first
code_before(a, b) ==
  IF b = <<>> THEN FALSE
  ELSE IF a = <<>> THEN TRUE
  ELSE IF Head(a) = Head(b) THEN code_before(Tail(a), Tail(b))
  ELSE Ord[Head(a)] < Ord[Head(b)]

RECURSIVE insert_by_code(_, _)
insert_by_code(sorted, row) ==
  IF sorted = <<>> THEN <<row>>
  ELSE IF code_before(row.code, Head(sorted).code) THEN <<row>> \o sorted
  ELSE <<Head(sorted)>> \o insert_by_code(Tail(sorted), row)

order_by_rowid(rows) == rows

RECURSIVE order_by_code_asc(_)
\* ORDER BY code ASC
order_by_code_asc(rows) ==
  IF rows = <<>> THEN <<>>
  ELSE insert_by_code(order_by_code_asc(Tail(rows)), Head(rows))

\* get_movies_by_category: the page of the rows of the category and the count
\* of all its rows; readOk is FALSE when sqlite3.Error is raised
get_movies_by_category(table, category, page, per_page, readOk) ==
  LET InCategory(row) == row.category = category
      rows == SelectSeq(table, InCategory)
      offset == (page - 1) * per_page
  IN  IF ~readOk THEN [movies |-> <<>>, total_count |-> 0]
      ELSE [movies |-> SubSeq(order_by_code_asc(rows), offset + 1,
                              IF offset + per_page < Len(rows)
                                THEN offset + per_page ELSE Len(rows)),
            total_count |-> Len(rows)]

\* the page size of show_movies_in_genre and of the next-page branch
movies_per_page == 8

\* total_pages = (total_count + 8 - 1) // 8
total_pages(total_count) == (total_count + movies_per_page - 1) \div movies_per_page

\* show_movies_in_genre: what the reply shows, nothing is written
show_movies_in_genre(genre, page, readOk) ==
  LET got == get_movies_by_category(movies, genre, page, movies_per_page, readOk)
      pages == total_pages(got.total_count)
  IN  [category |-> genre, page |-> page, per_page |-> movies_per_page,
       read |-> readOk, movies |-> got.movies, total_count |-> got.total_count,
       prev_button |-> got.movies # <<>> /\ pages > 1 /\ page > 1,
       next_button |-> got.movies # <<>> /\ pages > 1 /\ page < pages]

\* handle_message, one of the five labels of the main menu: /categories,
\* /search without arguments, /help, /about and /start reply and write nothing
MsgMenu(user_id, text) ==
  /\ Branch(user_id, text) = "menu"
  /\ last' = [op |-> "menu", user |-> user_id, text |-> text]
  /\ UNCHANGED <<videos, movies, pending_table, pending_movies, user_states,
                 everDrafted, collided, retry>>

\* handle_message, back to the genres: the cursor is dropped
MsgBack(user_id, text) ==
  /\ Branch(user_id, text) = "back"
  /\ user_states' = IF user_id \in DOMAIN user_states
                      THEN del(user_states, user_id) ELSE user_states
  /\ last' = [op |-> "back", user |-> user_id, text |-> text]
  /\ UNCHANGED <<videos, movies, pending_table, pending_movies,
                 everDrafted, collided, retry>>

\* genre = text.replace(folder, "").split(" (")[0]
genre_of(text) == before_first(replace(text, GenrePrefix, <<>>), <<" ", "(">>)

\* handle_message, a genre button from a user without a session
MsgGenre(user_id, text, readOk) ==
  /\ Branch(user_id, text) = "genre"
  /\ user_states' = put(user_states, user_id,
                        [genre |-> genre_of(text), page |-> 1])
  /\ last' = [op |-> "genre", user |-> user_id, text |-> text, result |-> "Shown",
              shown |-> <<show_movies_in_genre(genre_of(text), 1, readOk)>>]
  /\ UNCHANGED <<videos, movies, pending_table, pending_movies,
                 everDrafted, collided, retry>>

prev_page_above_two(current_page) ==
  IF current_page > 2 THEN <<current_page - 1>> ELSE <<>>

\* the page the previous-page branch moves to, <<>> when it refuses
prev_page(current_page) ==
  IF current_page > 1 THEN <<current_page - 1>> ELSE <<>>

\* handle_message, the previous-page button
MsgPrev(user_id, text, readOk) ==
  /\ Branch(user_id, text) = "prev"
  /\ IF user_id \notin DOMAIN user_states
       THEN /\ readOk
            /\ UNCHANGED user_states
            /\ last' = [op |-> "prev", user |-> user_id, text |-> text, result |-> "NoCursor",
                        shown |-> <<>>]
       ELSE LET state == user_states[user_id]
                new_page == prev_page(state.page)
            IN  IF new_page = <<>>
                  THEN /\ readOk
                       /\ UNCHANGED user_states
                       /\ last' = [op |-> "prev", user |-> user_id, text |-> text,
                                   result |-> "FirstPage", shown |-> <<>>]
                  ELSE /\ user_states' =
                            [user_states EXCEPT ![user_id].page = new_page[1]]
                       /\ last' = [op |-> "prev", user |-> user_id, text |-> text,
                                   result |-> "Shown",
                                   shown |-> <<show_movies_in_genre(
                                                 state.genre, new_page[1], readOk)>>]
  /\ UNCHANGED <<videos, movies, pending_table, pending_movies,
                 everDrafted, collided, retry>>

next_page_inclusive(current_page, pages) ==
  IF current_page <= pages THEN <<current_page + 1>> ELSE <<>>

\* the page the next-page branch moves to, <<>> when it refuses
next_page(current_page, pages) ==
  IF current_page < pages THEN <<current_page + 1>> ELSE <<>>

\* handle_message, the next-page button; countOk and readOk say whether the
\* read of the count and the read of the page go through
MsgNext(user_id, text, countOk, readOk) ==
  /\ Branch(user_id, text) = "next"
  /\ IF user_id \notin DOMAIN user_states
       THEN /\ countOk /\ readOk
            /\ UNCHANGED user_states
            /\ last' = [op |-> "next", user |-> user_id, text |-> text, result |-> "NoCursor",
                        counted |-> countOk, shown |-> <<>>]
       ELSE LET state == user_states[user_id]
                genre == state.genre
                total_count ==
                  get_movies_by_category(movies, genre, 1, movies_per_page,
                                         countOk).total_count
                new_page == next_page(state.page, total_pages(total_count))
            IN  IF genre = <<>>
                  THEN /\ countOk /\ readOk
                       /\ UNCHANGED user_states
                       /\ last' = [op |-> "next", user |-> user_id, text |-> text,
                                   result |-> "NoGenre", counted |-> countOk,
                                   shown |-> <<>>]
                ELSE IF new_page = <<>>
                  THEN /\ readOk
                       /\ UNCHANGED user_states
                       /\ last' = [op |-> "next", user |-> user_id, text |-> text,
                                   result |-> "LastPage", counted |-> countOk,
                                   shown |-> <<>>]
                  ELSE /\ user_states' =
                            [user_states EXCEPT ![user_id].page = new_page[1]]
                       /\ last' = [op |-> "next", user |-> user_id, text |-> text,
                                   result |-> "Shown", counted |-> countOk,
                                   shown |-> <<show_movies_in_genre(
                                                 genre, new_page[1], readOk)>>]
  /\ UNCHANGED <<videos, movies, pending_table, pending_movies,
                 everDrafted, collided, retry>>

RECURSIVE after_last(_, _)
\* text.split(ch)[-1]: the part of text after the last occurrence of ch
after_last(text, ch) ==
  IF ~contains(text, <<ch>>) THEN text
  ELSE after_last(Tail(text), ch)

\* code = text.split("(")[-1].split(")")[0]
button_code(text) == before_first(after_last(text, "("), <<")">>)

\* handle_message, a movie button: send_movie_by_code runs the lookup
MsgMovieButton(user_id, text, flags) ==
  /\ Branch(user_id, text) = "movie_button"
  /\ search_and_send_results(user_id, button_code(text), flags)

\* ------------------------------------------------------- the transitions
\* one handler runs per step, on one update
Tick == steps < MaxSteps /\ steps' = steps + 1

\* the number of add_pending_movie calls an ingest of the caption makes
CodeCount(mcaption) ==
  IF mcaption = <<>> THEN 0 ELSE Len(findall_hashtags(mcaption[1], 1))

\* a channel post of a message of M with a caption of C arrives
Ingest(M, C) ==
  \E chat_id \in Chats, message \in M, mcaption \in C, saveOk \in BOOLEAN :
    \E failing \in SUBSET (1..CodeCount(mcaption)) :
      channel_post_handler(chat_id, message, mcaption, saveOk, failing)

\* a user of U sends /addmovie
ListDrafts(U) == \E user_id \in U : addmovie_command(user_id)

\* a user of U presses the button of a code of K
Select(U, K) ==
  \E user_id \in U, code \in K, readOk \in BOOLEAN :
    handle_callback_query(user_id, code, readOk)

\* a user of U sends a text of T: one action per branch of handle_message
CommitGenre(U, T) ==
  \E user_id \in U, raw \in T, readOk, addOk, rmOk \in BOOLEAN :
    MsgCommitGenre(user_id, strip(raw), readOk, addOk, rmOk)

ElectNewCategory(U, T) ==
  \E user_id \in U, raw \in T : MsgNewCategory(user_id, strip(raw))

EnterTitle(U, T) ==
  \E user_id \in U, raw \in T : MsgTitle(user_id, strip(raw))

CategoryText(U, T) ==
  \E user_id \in U, raw \in T : MsgCategoryText(user_id, strip(raw))

EnterNewCategory(U, T) ==
  \E user_id \in U, raw \in T, readOk, addOk, rmOk \in BOOLEAN :
    MsgNewCategoryName(user_id, strip(raw), readOk, addOk, rmOk)

NoSession(U, T) ==
  \E user_id \in U, raw \in T : MsgNoSession(user_id, strip(raw))

\* a post of P arrives and is indexed
Indexed(P) ==
  \E chat_id \in Chats, post \in P :
    channel_post_handler(chat_id, post[1], <<post[2]>>, TRUE, {})

\* the curator's steps on the codes of K, with store calls that go through
Selected(U, K) ==
  \E user_id \in U, code \in K : handle_callback_query(user_id, code, TRUE)

\* the commit steps with store calls that go through
Chosen(U, T) ==
  \E user_id \in U, raw \in T : MsgCommitGenre(user_id, strip(raw), TRUE, TRUE, TRUE)
Named(U, T) ==
  \E user_id \in U, raw \in T :
    MsgNewCategoryName(user_id, strip(raw), TRUE, TRUE, TRUE)

Next ==
  \/ Tick /\ Ingest(Media, Opt(Captions))
  \/ Tick /\ ListDrafts(Users)
  \/ Tick /\ Select(Users, CodeInputs)
  \/ Tick /\ CommitGenre(Users, Texts)
  \/ Tick /\ ElectNewCategory(Users, Texts)
  \/ Tick /\ EnterTitle(Users, Texts)
  \/ Tick /\ CategoryText(Users, Texts)
  \/ Tick /\ EnterNewCategory(Users, Texts)
  \/ Tick /\ NoSession(Users, Texts)

Spec == Init /\ [][Next]_vars

\* two curators and one code: the posts are those of message 1 with the
\* caption "x #A1"
Pair == {1, 2}
PairMedia == {m \in Media : m.message_id = 1}
PairTexts ==
  {TextDune, BtnHind, BtnNewCategory, BtnBackToGenres, BtnPrevPage, BtnNextPage}

NextPair ==
  \/ Tick /\ Ingest(PairMedia, {<<CapA1>>})
  \/ Tick /\ Select(Pair, {CodeA1})
  \/ Tick /\ CommitGenre(Pair, PairTexts)
  \/ Tick /\ ElectNewCategory(Pair, PairTexts)
  \/ Tick /\ EnterTitle(Pair, PairTexts)
  \/ Tick /\ EnterNewCategory(Pair, PairTexts)

SpecPair == Init /\ [][NextPair]_vars

\* the states right after a commit of A1 that wrote the catalog entry and
\* failed to delete the draft (ingest of "x #A1", select, title, commit):
\* from there the curator runs the promotion again, no post arrives
HalfDone ==
  \E message \in {m \in Media : media_of(m.video, m.video_note) # <<>>},
     category \in {replace(BtnHind, GenrePrefix, <<>>), TextDune} :
    LET file_id == media_of(message.video, message.video_note)[1]
        chat_id == CHOOSE c \in Chats : TRUE
        draft == add_pending_movie(<<>>, CodeA1, message.message_id, chat_id,
                                   file_id, CapA1)
        attempt == [code |-> CodeA1, title |-> TextDune, category |-> category]
    IN  /\ videos = save_video(<<>>, chat_id, message.message_id, file_id, CapA1,
                              now(<<>>))
        /\ movies = add_movie(<<>>, CodeA1, TextDune, category,
                              message.message_id, chat_id, file_id)
        /\ pending_table = draft
        /\ pending_movies = <<>>
        /\ user_states = <<>>
        /\ last = [op |-> "commit", user |-> 1, code |-> CodeA1,
                   title |-> TextDune, category |-> category,
                   result |-> "CommittedDraftKept", draft |-> draft,
                   replaced |-> <<>>, newest |-> draft, retried |-> "no"]
        /\ everDrafted = {CodeA1}
        /\ collided = {<<CodeA1, "halfdone">>}
        /\ retry = <<[attempt |-> attempt, result |-> "CommittedDraftKept"]>>
        /\ steps = 4

Still == steps' = steps

\* the curator's steps that go through: the selection reads the draft, a
\* non-empty title is stored, the commit writes the entry and deletes the draft

NextRecover ==
  \/ Still /\ Select(Users, CodeInputs)
  \/ Still /\ CommitGenre(Users, Texts)
  \/ Still /\ ElectNewCategory(Users, Texts)
  \/ Still /\ EnterTitle(Users, Texts)
  \/ Still /\ CategoryText(Users, Texts)
  \/ Still /\ EnterNewCategory(Users, Texts)
  \/ Still /\ NoSession(Users, Texts)

\* the curator keeps running the promotion, and the store does not fail for ever
SpecRecover ==
  /\ HalfDone
  /\ [][NextRecover]_vars
  /\ WF_vars(Still /\ Selected(Users, {CodeA1}))
  /\ WF_vars(Still /\ EnterTitle(Users, Texts \ {TextBlank}))
  /\ SF_vars(Still /\ Chosen(Users, Texts))

\* the promotions and the lookups: posts whose captions carry the codes A7,
\* A71, M7 and M007, one curator who promotes A7, store calls of the ingest
\* and of the curation that go through, and lookups whose store calls may fail
CodeA7 == <<"A", "7">>
Text007 == <<"0", "0", "7">>
CapA7 == <<"#", "A", "7">>
CapM007 == <<"#", "M", "0", "0", "7">>
\* message 1 under each caption, message 2 under "#A7"
ResolvePosts ==
  {<<m, c>> \in Media \X {CapA7, <<"#", "A", "7", "1">>, <<"#", "M", "7">>, CapM007} :
     \/ m.message_id = 1
     \/ m.message_id = 2 /\ c = CapA7}

\* the number of videos the search for a code returns
HitCount(code) == Len(matching(videos, hashtag_of(code)))

\* the outcomes of the store calls of a lookup of code
Flags(code) ==
  [read : BOOLEAN,
   reread : IF get_movie_by_code(movies, code) # <<>> THEN BOOLEAN ELSE {TRUE},
   fetch : BOOLEAN,
   stale : SUBSET (1..HitCount(code)),
   scan : Perms(HitCount(code))]

\* a user of U sends /search with no argument or a code of K
SearchCommand(U, K) ==
  \E user_id \in U, args \in Opt(K) :
    \E flags \in (IF args = <<>> THEN {NoCalls} ELSE Flags(args[1])) :
      search_command(user_id, args, flags)

\* a user of U sends a code of T as a text
SearchText(U, T) ==
  \E user_id \in U, raw \in T :
    \E flags \in Flags(strip(raw)) : MsgSearch(user_id, strip(raw), flags)

NextResolve ==
  \/ Tick /\ Indexed(ResolvePosts)
  \/ Tick /\ Selected(Users, {CodeA7})
  \/ Tick /\ EnterTitle(Users, {TextDune})
  \/ Tick /\ Chosen(Users, {BtnHind})
  \/ Tick /\ SearchCommand(Users, {CodeA7, <<"a", "7">>})
  \/ Tick /\ SearchText(Users, {TextSeven, Text007, <<"1", "0", "0", "1">>})

SpecResolve == Init /\ [][NextResolve]_vars

\* handle_message on a stripped text: the branch the text takes, with every
\* outcome of the store calls of that branch
handle_message(user_id, text) ==
  \/ \E flags \in Flags(text) : MsgSearch(user_id, text, flags)
  \/ MsgMenu(user_id, text)
  \/ \E readOk, addOk, rmOk \in BOOLEAN :
       MsgCommitGenre(user_id, text, readOk, addOk, rmOk)
  \/ MsgNewCategory(user_id, text)
  \/ MsgBack(user_id, text)
  \/ \E readOk \in BOOLEAN : MsgGenre(user_id, text, readOk)
  \/ \E flags \in Flags(button_code(text)) : MsgMovieButton(user_id, text, flags)
  \/ \E readOk \in BOOLEAN : MsgPrev(user_id, text, readOk)
  \/ \E countOk, readOk \in BOOLEAN : MsgNext(user_id, text, countOk, readOk)
  \/ MsgTitle(user_id, text)
  \/ MsgCategoryText(user_id, text)
  \/ \E readOk, addOk, rmOk \in BOOLEAN :
       MsgNewCategoryName(user_id, text, readOk, addOk, rmOk)
  \/ MsgNoSession(user_id, text)

\* the browsing: a catalog that earlier promotions filled, one user who
\* browses it and promotes A1 meanwhile, store calls of the ingest and of the
\* curation that go through, reads of the pages that may fail
MaxCatalog == 12
Hind == <<"H", "i", "n", "d", " ", "k", "i", "n", "o", "l", "a", "r">>
\* the entries, in the order of their promotion: the third and the seventh
\* are of Drama, the others of Hind kinolar
Stock ==
  LET codes ==
      <<<<"M", "5">>, <<"A", "1", "0">>, <<"D", "1">>, <<"b", "1">>, <<"9">>,
        <<"A", "2">>, <<"D", "2">>, <<"_", "x">>, <<"B", "7">>, <<"a", "1">>,
        <<"A", "1">>, <<"Z">>, <<"A">>, <<"7", "7">>>>
  IN  [i \in 1..Len(codes) |->
         [code |-> codes[i], title |-> TextDune,
          category |-> IF i \in {3, 7} THEN <<"D", "r", "a", "m", "a">> ELSE Hind,
          channel_message_id |-> 2, channel_id |-> 100, file_id |-> "f2"]]

InitBrowse ==
  /\ videos = <<>>
  /\ \E n \in {0, MaxCatalog - 2, MaxCatalog} : movies = SubSeq(Stock, 1, n)
  /\ pending_table = <<>>
  /\ pending_movies = <<>>
  /\ user_states = <<>>
  /\ last = [op |-> "none"]
  /\ everDrafted = {}
  /\ collided = {}
  /\ retry = <<>>
  /\ steps = 0

BtnHindCount == BtnHind \o <<" ", "(", "1", "0", " ", "f", "i", "l", "m", ")">>
BrowseTexts ==
  {TextDune, <<"1", "9", "1", "7">>, BtnCategories, BtnHind, BtnHindCount,
   BtnNewCategory, BtnBackToGenres, BtnPrevPage, BtnNextPage,
   MoviePrefix \o TextDune \o <<" ", "(", "A", "1", ")">>}

\* a user of U sends a text of T: the branches of the menu and of the browsing
Back(U, T) == \E user_id \in U, raw \in T : MsgBack(user_id, strip(raw))
Browse(U, T) ==
  \E user_id \in U, raw \in T, readOk \in BOOLEAN :
    MsgGenre(user_id, strip(raw), readOk)
PrevPage(U, T) ==
  \E user_id \in U, raw \in T, readOk \in BOOLEAN :
    MsgPrev(user_id, strip(raw), readOk)
NextPage(U, T) ==
  \E user_id \in U, raw \in T, countOk, readOk \in BOOLEAN :
    MsgNext(user_id, strip(raw), countOk, readOk)

NextBrowse ==
  \/ Tick /\ Indexed(PairMedia \X {CapA1})
  \/ Tick /\ Selected(Users, {CodeA1})
  \/ Tick /\ EnterTitle(Users, BrowseTexts)
  \/ Tick /\ Chosen(Users, BrowseTexts)
  \/ Tick /\ ElectNewCategory(Users, BrowseTexts)
  \/ Tick /\ CategoryText(Users, BrowseTexts)
  \/ Tick /\ Named(Users, BrowseTexts)
  \/ Tick /\ NoSession(Users, BrowseTexts)
  \/ Tick /\ \E user_id \in Users, raw \in BrowseTexts :
               MsgMenu(user_id, strip(raw))
  \/ Tick /\ Back(Users, BrowseTexts)
  \/ Tick /\ Browse(Users, BrowseTexts)
  \/ Tick /\ PrevPage(Users, BrowseTexts)
  \/ Tick /\ NextPage(Users, BrowseTexts)
  \/ Tick /\ \E user_id \in Users, raw \in BrowseTexts :
               \E flags \in Flags(button_code(strip(raw))) :
                 MsgMovieButton(user_id, strip(raw), flags)
  \/ Tick /\ SearchText(Users, BrowseTexts)

SpecBrowse == InitBrowse /\ [][NextBrowse]_vars

\* two users over the filled catalog: each of them browses and promotes A1
NextShare ==
  \/ Tick /\ Indexed(PairMedia \X {CapA1})
  \/ Tick /\ ListDrafts(Pair)
  \/ Tick /\ Selected(Pair, {CodeA1})
  \/ Tick /\ EnterTitle(Pair, PairTexts)
  \/ Tick /\ Chosen(Pair, PairTexts)
  \/ Tick /\ ElectNewCategory(Pair, PairTexts)
  \/ Tick /\ Named(Pair, PairTexts)
  \/ Tick /\ Back(Pair, PairTexts)
  \/ Tick /\ Browse(Pair, PairTexts)
  \/ Tick /\ PrevPage(Pair, PairTexts)
  \/ Tick /\ NextPage(Pair, PairTexts)

SpecShare == InitBrowse /\ [][NextShare]_vars

\* the listing alone: get_movies_by_category on each catalog of up to
\* MaxCatalog entries, for the categories, pages and page sizes below (the
\* sizes are those of the callers: 1, the default 5, and 8)
InitList ==
  /\ videos = <<>>
  /\ \E n \in 0..MaxCatalog : movies = SubSeq(Stock, 1, n)
  /\ pending_table = <<>>
  /\ pending_movies = <<>>
  /\ user_states = <<>>
  /\ last = [op |-> "none"]
  /\ everDrafted = {}
  /\ collided = {}
  /\ retry = <<>>
  /\ steps = 0

\* one call of get_movies_by_category
ListCategory(category, page, per_page, readOk) ==
  LET got == get_movies_by_category(movies, category, page, per_page, readOk)
  IN  /\ last' = [op |-> "list", category |-> category, page |-> page,
                  per_page |-> per_page, read |-> readOk,
                  movies |-> got.movies, total_count |-> got.total_count]
      /\ UNCHANGED <<videos, movies, pending_table, pending_movies, user_states,
                     everDrafted, collided, retry>>

NextList ==
  \/ Tick /\ \E category \in {Hind, <<"D", "r", "a", "m", "a">>, TextDune},
                 page \in 1..3, per_page \in {1, 5, 8}, readOk \in BOOLEAN :
               ListCategory(category, page, per_page, readOk)

SpecList == InitList /\ [][NextList]_vars

\* every handler together: posts of the three messages with the caption
\* "#A1 #B2", one user who lists, selects, promotes, browses and looks A1 up;
\* the store calls of the ingest, of the selection and of the commit may fail,
\* those of the lookup go through
MaxRuns == 5
Run == steps < MaxRuns /\ steps' = steps + 1
AllTexts ==
  {TextDune, BtnCategories, BtnHind, BtnNewCategory, BtnBackToGenres,
   BtnPrevPage, BtnNextPage}

NextAll ==
  \/ Run /\ Ingest(Media, {<<CapA1B2>>})
  \/ Run /\ ListDrafts(Users)
  \/ Run /\ Select(Users, CodeInputs)
  \/ Run /\ CommitGenre(Users, AllTexts)
  \/ Run /\ ElectNewCategory(Users, AllTexts)
  \/ Run /\ EnterTitle(Users, AllTexts)
  \/ Run /\ CategoryText(Users, AllTexts)
  \/ Run /\ EnterNewCategory(Users, AllTexts)
  \/ Run /\ NoSession(Users, AllTexts)
  \/ Run /\ \E user_id \in Users, raw \in AllTexts : MsgMenu(user_id, strip(raw))
  \/ Run /\ Back(Users, AllTexts)
  \/ Run /\ Browse(Users, AllTexts)
  \/ Run /\ PrevPage(Users, AllTexts)
  \/ Run /\ NextPage(Users, AllTexts)
  \/ Run /\ \E user_id \in Users :
              search_command(user_id, <<CodeA1>>,
                             [NoCalls EXCEPT !.scan =
                                by_rowid(matching(videos, hashtag_of(CodeA1)))])

SpecAll == Init /\ [][NextAll]_vars

\* the extraction alone: extract_hashtags_as_codes on every caption of up to
\* MaxLen characters over the marker, two letters that differ by case only, a
\* digit and the blank
MaxLen == 5
CaptionChars == {"#", "A", "a", "1", " "}

InitExtract ==
  /\ videos = <<>>
  /\ movies = <<>>
  /\ pending_table = <<>>
  /\ pending_movies = <<>>
  /\ user_states = <<>>
  /\ \E n \in 0..MaxLen : \E caption \in [1..n -> CaptionChars] :
       last = [op |-> "caption", caption |-> caption]
  /\ everDrafted = {}
  /\ collided = {}
  /\ retry = <<>>
  /\ steps = 0

\* one call of extract_hashtags_as_codes on the caption
ExtractCodes ==
  /\ last.op = "caption"
  /\ last' = [op |-> "extract", caption |-> last.caption,
              codes |-> extract_hashtags_as_codes(last.caption)]
  /\ UNCHANGED <<videos, movies, pending_table, pending_movies, user_states,
                 everDrafted, collided, retry, steps>>

NextExtract ==
  \/ ExtractCodes

SpecExtract == InitExtract /\ [][NextExtract]_vars

\* ------------------------------------------------------------- properties
CodesSeen ==
  {pending_table[i].code : i \in 1..Len(pending_table)}
    \cup {movies[i].code : i \in 1..Len(movies)} \cup everDrafted

IsCommit(l) == l.op = "commit"

\* C1: every code that ever had a pending draft still has a pending draft or
\* a catalog entry; the commit deletes the draft only after its catalog write
C1_NoCodeLost ==
  \A c \in everDrafted : InPending(c) \/ InCatalog(c)

C1_Witness ==
  /\ IsCommit(last)
  /\ last.result = "Committed"
  /\ last.code \in everDrafted
  /\ ~InPending(last.code)
  /\ InCatalog(last.code)

\* C2: a commit whose catalog write fails leaves the user's session, the
\* pending drafts and the catalog as they were
C2_FailedWriteKeepsAll ==
  [][(IsCommit(last') /\ last'.result = "PersistenceFailure")
       => /\ pending_movies' = pending_movies
          /\ pending_table' = pending_table
          /\ movies' = movies]_vars

C2_Witness ==
  /\ IsCommit(last)
  /\ last.result = "PersistenceFailure"
  /\ last.user \in DOMAIN pending_movies
  /\ pending_movies[last.user].code = last.code
  /\ pending_movies[last.user].title = last.title
  /\ pending_movies[last.user].step \in {"category", "new_category"}
  /\ InPending(last.code)

\* C3: a commit that finds no pending draft of the session's code fails
\* with DraftMissing, writes no catalog entry and deletes no draft
C3_MissingDraftAborts ==
  [][(IsCommit(last') /\ RowsOf(pending_table, last'.code) = {})
       => /\ last'.result = "DraftMissing"
          /\ movies' = movies
          /\ pending_table' = pending_table]_vars

C3_Witness ==
  /\ IsCommit(last)
  /\ last.result = "DraftMissing"
  /\ ~InPending(last.code)
  /\ InCatalog(last.code)
  /\ last.user \in DOMAIN pending_movies

\* the catalog row a commit recorded in l writes from the pending row d
EntryOf(l, d) ==
  [code |-> l.code, title |-> l.title, category |-> l.category,
   channel_message_id |-> d.channel_message_id,
   channel_id |-> d.channel_id, file_id |-> d.file_id]

\* C4: after a successful commit of a code the catalog holds exactly the
\* entry made of the collected title and category and of the media fields
\* of the draft left by the most recent ingest of the code, no draft of the
\* code remains and the user's session is cleared
C4_CommitWritesLatestDraft ==
  (IsCommit(last) /\ last.result = "Committed")
    => /\ last.draft = last.newest
       /\ \A i \in RowsOf(movies, last.code) : movies[i] = EntryOf(last, last.newest[1])
       /\ Cardinality(RowsOf(movies, last.code)) = 1
       /\ ~InPending(last.code)
       /\ last.user \notin DOMAIN pending_movies

\* C5: a commit that goes through after a failed or half-done commit of the
\* same code, title and category ends with exactly one catalog entry and no
\* pending draft of the code
C5_RetryIdempotent ==
  (IsCommit(last) /\ last.result = "Committed" /\ last.retried # "no")
    => /\ Cardinality(RowsOf(movies, last.code)) = 1
       /\ ~InPending(last.code)

C5_Witness ==
  /\ IsCommit(last)
  /\ last.result = "Committed"
  /\ last.retried = "CommittedDraftKept"
  /\ Cardinality(RowsOf(movies, last.code)) = 1
  /\ ~InPending(last.code)

\* C6: after a commit that wrote the catalog entry and failed to delete the
\* draft, running the promotion again ends with the code in the catalog and
\* without a pending draft: the code does not stay in both tables
C6_HalfDoneRecovers ==
  (InPending(CodeA1) /\ InCatalog(CodeA1))
    ~> (InCatalog(CodeA1) /\ ~InPending(CodeA1))

C6_Witness ==
  /\ IsCommit(last)
  /\ last.result = "Committed"
  /\ last.retried = "CommittedDraftKept"
  /\ InCatalog(CodeA1)
  /\ ~InPending(CodeA1)

\* the state the recovery starts from is one the program reaches
C6_HalfDoneUnreached == ~HalfDone

\* C7 as stated: no code has both a pending draft and a catalog entry,
\* unless a commit of the code is under way (it wrote the entry and the
\* drafts are not deleted yet)
C7_NeverBoth ==
  \A c \in CodesSeen :
    (InPending(c) /\ InCatalog(c)) => <<c, "halfdone">> \in collided

\* C7 as amended: a code has both a pending draft and a catalog entry only
\* when an ingest wrote a draft of it while its entry existed, or when a
\* commit of it wrote the entry and failed to delete the drafts, and no
\* commit of the code has gone through completely since
C7_BothOnlyAfterCollision ==
  \A c \in CodesSeen :
    (InPending(c) /\ InCatalog(c))
      => (<<c, "reingest">> \in collided \/ <<c, "halfdone">> \in collided)

C7_Witness ==
  /\ last.op = "ingest"
  /\ last.result = "Indexed"
  /\ \E c \in CodesSeen :
       /\ InPending(c) /\ InCatalog(c)
       /\ <<c, "reingest">> \in collided
       /\ <<c, "halfdone">> \notin collided

\* C8: there is at most one pending draft per code
C8_OneDraftPerCode ==
  \A c \in CodesSeen : Cardinality(RowsOf(pending_table, c)) <= 1

\* C9: there is exactly one content item per (channel id, message id), the
\* one of the latest ingest
C9_OneItemPerIdentity ==
  \A i, j \in 1..Len(videos) :
    (videos[i].chat_id = videos[j].chat_id
       /\ videos[i].message_id = videos[j].message_id) => i = j

\* C10: an ingest that stored the item and wrote every draft leaves, for
\* every code extracted from the caption, a pending draft keyed by the code
\* without its marker and carrying the item's channel id, message id, media
\* ref and caption; the ingest leaves the catalog as it was
C10_IngestDraftsEveryCode ==
  [][(last'.op = "ingest" /\ last'.result = "Indexed" /\ last'.failing = {})
       => LET item == videos'[Len(videos')]
              tags == split(item.codes)
          IN  /\ movies' = movies
              /\ \A k \in 1..Len(tags) :
                   \E i \in 1..Len(pending_table') :
                     pending_table'[i] =
                       [code |-> Tail(tags[k]),
                        channel_message_id |-> item.message_id,
                        channel_id |-> item.chat_id,
                        file_id |-> item.file_id,
                        caption |-> item.caption]]_vars

C10_Witness ==
  /\ last.op = "ingest"
  /\ last.result = "Indexed"
  /\ last.failing = {}
  /\ videos[Len(videos)].caption = CapA1B2
  /\ InPending(CodeA1)
  /\ InPending(CodeB2)
  /\ movies = <<>>

\* the post of the message id recorded by an ingest
PostOf(message_id) == CHOOSE m \in Media : m.message_id = message_id

\* the pending row an ingest of the item writes for a code
DraftOf(item, code) ==
  [code |-> code, channel_message_id |-> item.message_id,
   channel_id |-> item.chat_id, file_id |-> item.file_id,
   caption |-> item.caption]

C12_NotMediaWritesNothing ==
  [][(last'.op = "ingest" /\ steps' # steps
        /\ PostOf(last'.message_id).video = <<>>
        /\ PostOf(last'.message_id).video_note = <<>>)
       => /\ last'.result = "NotMedia"
          /\ UNCHANGED <<videos, pending_table, movies>>]_vars

C12_Witness ==
  /\ last.op = "ingest"
  /\ last.result = "NotMedia"
  /\ PostOf(last.message_id).video = <<>>
  /\ PostOf(last.message_id).video_note = <<>>
  /\ videos # <<>>

\* C13: an ingest of a post with media whose caption is absent or has no
\* hashtag, and whose save goes through, stores the item with the empty code
\* string and leaves the pending rows as they were
C13_NoHashtagNoDraft ==
  [][(last'.op = "ingest" /\ last'.result = "Indexed"
        /\ findall_hashtags(videos'[Len(videos')].caption, 1) = <<>>)
       => /\ videos' = Append(videos, videos'[Len(videos')])
          /\ videos'[Len(videos')].codes = <<>>
          /\ pending_table' = pending_table
          /\ movies' = movies]_vars

C13_Witness ==
  /\ last.op = "ingest"
  /\ last.result = "Indexed"
  /\ videos[Len(videos)].caption = CapPlain
  /\ videos[Len(videos)].codes = <<>>
  /\ pending_table = <<>>

IsSearch(l) == l.op = "search"

\* the hashtag is one of the codes of the space-separated code string
carries_whole(codes, hashtag) ==
  \E k \in 1..Len(split(codes)) : split(codes)[k] = hashtag

\* C14: a lookup whose store calls go through and whose code has a catalog
\* entry returns that entry alone, as a movie, whatever videos carry the code
C14_CatalogFirst ==
  (IsSearch(last) /\ last.ok /\ InCatalog(last.code))
    => last.results =
         <<[type |-> "movie", row |-> get_movie_by_code(movies, last.code)[1]]>>

C14_Witness ==
  /\ IsSearch(last)
  /\ last.ok
  /\ last.code = CodeA7
  /\ InCatalog(CodeA7)
  /\ ~InPending(CodeA7)
  /\ \E i \in 1..Len(videos) : carries_whole(videos[i].codes, hashtag_of(CodeA7))
  /\ last.results # <<>>
  /\ last.results[1].type = "movie"

\* the code a result was looked up under: the code of the call, or the last
\* prefixed code tried
LookedUp(l) == IF l.tried = <<>> THEN l.code ELSE l.tried[Len(l.tried)][2]

\* C15: a video returned by a lookup whose store calls go through carries
\* the hashtag of the code it was looked up under as a whole member of its
\* code string
C15_RawCarriesWholeCode ==
  (IsSearch(last) /\ last.ok)
    => \A k \in 1..Len(last.results) :
         last.results[k].type = "video"
           => carries_whole(last.results[k].row.codes, hashtag_of(LookedUp(last)))

\* the input is all digits, one to three of them, the first not '0'
Guessable(code) ==
  /\ Len(code) \in 1..3
  /\ \A i \in 1..Len(code) : code[i] \in Digits
  /\ code[1] # "0"

\* C16: a lookup makes prefixed lookups only for a guessable code, and only
\* when the code has no entry and no video carries its hashtag; a lookup of
\* any other code whose exact lookups find nothing returns nothing
C16_GuessOnlyShortNumeric ==
  IsSearch(last)
    => /\ last.tried # <<>>
            => /\ Guessable(last.code)
               /\ last.ok
                    => /\ ~InCatalog(last.code)
                       /\ \A i \in 1..Len(videos) :
                            ~carries(videos[i].codes, hashtag_of(last.code))
       /\ (~Guessable(last.code) /\ ~InCatalog(last.code)
             /\ \A i \in 1..Len(videos) :
                  ~carries(videos[i].codes, hashtag_of(last.code)))
            => last.results = <<>>

C16_Witness ==
  /\ IsSearch(last)
  /\ last.ok
  /\ last.code = Text007
  /\ \E i \in 1..Len(videos) : videos[i].caption = CapM007
  /\ last.results = <<>>
  /\ last.tried = <<>>

\* the hits of a prefixed code: its entry, or else the newest video that
\* carries its hashtag
HitsOf(full_code) ==
  IF InCatalog(full_code)
  THEN <<[type |-> "movie", row |-> get_movie_by_code(movies, full_code)[1]]>>
  ELSE LET carrying == {i \in 1..Len(videos) :
                          carries(videos[i].codes, hashtag_of(full_code))}
       IN  IF carrying = {} THEN <<>>
           ELSE <<[type |-> "video",
                   row |-> videos[CHOOSE i \in carrying :
                                    \A j \in carrying :
                                      videos[i].date >= videos[j].date]]>>

\* C17: a lookup that goes to the prefixes, its store calls going through,
\* returns the hits of the first prefix, in the order M A C D H S F T, that
\* has an entry or a video
C17_FirstPrefixWins ==
  (IsSearch(last) /\ last.ok /\ last.tried # <<>>)
    => LET hitting == {p \in 1..Len(Prefixes) :
                         HitsOf(<<Prefixes[p]>> \o last.code) # <<>>}
       IN  IF hitting = {} THEN last.results = <<>>
           ELSE last.results =
                  HitsOf(<<Prefixes[CHOOSE p \in hitting :
                                      \A q \in hitting : p <= q]>> \o last.code)

\* C18: a lookup whose second read of the entry disagrees with the first
\* returns nothing
C18_MismatchIsNotFound ==
  (IsSearch(last) /\ last.mismatch) => last.results = <<>>

\* C19: two lookups of one code in a row, the store calls of both going
\* through, return the same results
C19_RepeatedLookupSame ==
  (IsSearch(last) /\ last.before # <<>> /\ last.ok /\ last.before[1].ok)
    => last.results = last.before[1].results

C19_Witness ==
  /\ IsSearch(last)
  /\ last.before # <<>>
  /\ last.ok
  /\ last.before[1].ok
  /\ last.results # <<>>
  /\ last.results[1].type = "video"
  /\ Cardinality({i \in 1..Len(videos) :
                    carries_whole(videos[i].codes, hashtag_of(last.code))}) = 2

\* C20: a lookup whose store calls go through and whose code is, up to the
\* case of its letters, the code of an entry or a whole hashtag of a video,
\* returns a result
C20_CaseInsensitive ==
  (IsSearch(last) /\ last.ok
     /\ \/ \E i \in 1..Len(movies) :
             fold_text(movies[i].code) = fold_text(last.code)
        \/ \E i \in 1..Len(videos) :
             carries_whole(fold_text(videos[i].codes),
                           fold_text(hashtag_of(last.code))))
    => last.results # <<>>

\* the session of a user, <<>> when the user has none
SessionOf(user_id) ==
  IF user_id \in DOMAIN pending_movies THEN <<pending_movies[user_id]>> ELSE <<>>

\* the user has a session at the step
AtStep(user_id, step) ==
  user_id \in DOMAIN pending_movies /\ pending_movies[user_id].step = step

\* C21: in the text-collecting steps every non-empty text is accepted verbatim:
\* at step title any non-empty text a user sends (all-digit text and the menu
\* and navigation labels included) becomes the title and the step becomes
\* category; at step new_category any non-empty text becomes the category of
\* the commit that is performed
C21_FreeTextAccepted ==
  [][\A user_id \in Users, raw \in BrowseTexts :
       LET text == strip(raw)
       IN  text # <<>> /\ handle_message(user_id, text) =>
             /\ AtStep(user_id, "title") =>
                  pending_movies' =
                    put(pending_movies, user_id,
                        with_title(pending_movies[user_id], text))
             /\ AtStep(user_id, "new_category") =>
                  /\ last'.op = "commit"
                  /\ last'.user = user_id
                  /\ last'.category = text]_vars

\* the category buttons the title step presents
ListedCategories == {BtnHind}

\* C22: at step category only two inputs cause a transition: a category
\* button of the list presented commits with that category, the new-category
\* button moves the step to new_category; any other text leaves the session
\* as it is and writes nothing to the catalog
C22_OnlyListedOrNew ==
  [][\A user_id \in Users, raw \in BrowseTexts :
       LET text == strip(raw)
       IN  AtStep(user_id, "category") /\ handle_message(user_id, text) =>
             IF text \in ListedCategories
               THEN /\ last'.op = "commit"
                    /\ last'.category = replace(text, GenrePrefix, <<>>)
             ELSE IF text = BtnNewCategory
               THEN /\ pending_movies' =
                         [pending_movies EXCEPT ![user_id].step = "new_category"]
                    /\ movies' = movies
             ELSE /\ pending_movies' = pending_movies
                  /\ movies' = movies]_vars

\* C23: a user has at most one curation session: a selection that reads a
\* draft while the user has a session replaces it with a fresh session at step
\* title for the selected code, without the title collected before, and
\* changes no pending row and no catalog entry
C23_SelectionReplacesSession ==
  [][last'.op = "select" /\ last'.result = "Selected" =>
       LET user_id == last'.user
       IN  /\ user_id \in DOMAIN pending_movies'
           /\ pending_movies'[user_id].code = last'.code
           /\ pending_movies'[user_id].step = "title"
           /\ "title" \notin DOMAIN pending_movies'[user_id]
           /\ \A other \in DOMAIN pending_movies \ {user_id} :
                /\ other \in DOMAIN pending_movies'
                /\ pending_movies'[other] = pending_movies[other]
           /\ DOMAIN pending_movies' = DOMAIN pending_movies \cup {user_id}
           /\ pending_table' = pending_table
           /\ movies' = movies]_vars

\* a selection of B2 replaced a session for A1 whose title was collected
C23_Witness ==
  /\ last.op = "select"
  /\ last.result = "Selected"
  /\ last.code = CodeB2
  /\ last.abandoned # <<>>
  /\ last.abandoned[1].code = CodeA1
  /\ last.abandoned[1].step = "category"
  /\ last.abandoned[1].title = TextDune
  /\ pending_movies[last.user].code = CodeB2

\* C24: a code is selectable exactly when it has a pending row, cataloged or
\* not: the selection whose read goes through starts a session at step title
\* when the row exists and is refused when it does not; the commit of a
\* session for a cataloged code leaves one entry of the code, with the title
\* collected, the category chosen and the media fields of the pending row
C24_ReclassifyReplaces ==
  [][/\ \A user_id \in Users, code \in CodeInputs :
          handle_callback_query(user_id, code, TRUE) =>
            /\ last'.result = "Selected" <=> InPending(code)
            /\ InPending(code) =>
                 pending_movies'[user_id] =
                   new_session(code, get_pending_movie_by_code(pending_table, code)[1])
     /\ IsCommit(last') /\ last'.result \in {"Committed", "CommittedDraftKept"} =>
          /\ Cardinality(RowsOf(movies', last'.code)) = 1
          /\ get_movie_by_code(movies', last'.code)[1] =
               [code |-> last'.code, title |-> last'.title,
                category |-> last'.category,
                channel_message_id |-> last'.draft[1].channel_message_id,
                channel_id |-> last'.draft[1].channel_id,
                file_id |-> last'.draft[1].file_id]]_vars

\* the commit of a session for the cataloged code A1 replaced its entry by one
\* with another title and other media
C24_Witness ==
  /\ IsCommit(last)
  /\ last.result = "Committed"
  /\ last.replaced # <<>>
  /\ last.replaced[1].title # last.title
  /\ last.replaced[1].file_id # last.draft[1].file_id
  /\ get_movie_by_code(movies, last.code)[1].title = last.title
  /\ get_movie_by_code(movies, last.code)[1].file_id = last.draft[1].file_id

\* the browse cursor of a user, <<>> when the user has none
CursorOf(user_id) ==
  IF user_id \in DOMAIN user_states THEN <<user_states[user_id]>> ELSE <<>>

\* C25: session state is never shared between users: a handler run for one
\* user (command, text, draft selection, category selection, page navigation)
\* leaves the curation session and the browse cursor of every other user as
\* they were
C25_OtherUsersUntouched ==
  [][\A user_id \in Pair :
       "user" \in DOMAIN last' /\ last'.user = user_id =>
         \A other \in Pair \ {user_id} :
           /\ SessionOf(other)' = SessionOf(other)
           /\ CursorOf(other)' = CursorOf(other)]_vars

\* user 2 moved to page 2 while user 1 holds a session and a cursor at page 1
C25_Witness ==
  /\ last.op = "next"
  /\ last.user = 2
  /\ last.result = "Shown"
  /\ 1 \in DOMAIN pending_movies
  /\ 1 \in DOMAIN user_states
  /\ 2 \in DOMAIN user_states
  /\ user_states[1].page = 1
  /\ user_states[2].page = 2

\* the labels of the browsing: a button of the category list and the buttons
\* of the pages
BrowseButtons == {BtnHindCount, BtnNextPage, BtnPrevPage, BtnBackToGenres}

\* the handler runs of the curation
CurationOps ==
  {"addmovie", "select", "title", "category_text", "new_category",
   "new_category_name", "commit"}

\* C26: curation progress and browse cursor are independent: a browse
\* operation (a category chosen to browse, next page, previous page, back to
\* the categories) changes neither the curation session nor the catalog,
\* whatever the curation step, and a curation operation never changes the
\* browse cursor
C26_BrowseAndCurationApart ==
  [][/\ \A user_id \in Users, raw \in BrowseButtons :
          handle_message(user_id, strip(raw)) =>
            /\ pending_movies' = pending_movies
            /\ movies' = movies
     /\ last'.op \in CurationOps => user_states' = user_states]_vars

\* the number of catalog entries of a category
CountOf(category) ==
  Cardinality({i \in 1..Len(movies) : movies[i].category = category})

\* ceil(n / size): the least number of pages of the size that hold n entries
Ceil(n, size) == CHOOSE k \in 0..n : k * size >= n /\ \A j \in 0..n : j * size >= n => k <= j

\* C27: the next-page request of a user with a cursor, when the read of the
\* count goes through: at or beyond page ceil(total / 8) of the cursor's
\* category it is refused and the cursor stays; else the page grows by
\* exactly 1 and the category stays
C27_NextWithinPages ==
  [][\A user_id \in Users :
       /\ last'.op = "next"
       /\ last'.user = user_id
       /\ last'.counted
       /\ user_id \in DOMAIN user_states
       => LET cursor == user_states[user_id]
          IN  IF cursor.page >= Ceil(CountOf(cursor.genre), 8)
                THEN /\ last'.result \in {"LastPage", "NoGenre"}
                     /\ user_states' = user_states
                ELSE /\ last'.result = "Shown"
                     /\ user_states' =
                          put(user_states, user_id,
                              [genre |-> cursor.genre, page |-> cursor.page + 1])]_vars

\* next moved the cursor to page 2 of a category of 9 entries, the last page
C27_Witness ==
  /\ last.op = "next"
  /\ last.result = "Shown"
  /\ last.counted
  /\ user_states[last.user].page = 2
  /\ CountOf(user_states[last.user].genre) = 9

\* next was refused at the last page
C27_Refused ==
  /\ last.op = "next"
  /\ last.result = "LastPage"
  /\ last.counted
  /\ user_states[last.user].page = 2
  /\ CountOf(user_states[last.user].genre) > 8

\* C28: the previous-page request of a user with a cursor: at page 1 it is
\* refused and the cursor stays; else the page shrinks by exactly 1 and the
\* category stays
C28_PrevAboveFirst ==
  [][\A user_id \in Users :
       /\ last'.op = "prev"
       /\ last'.user = user_id
       /\ user_id \in DOMAIN user_states
       => LET cursor == user_states[user_id]
          IN  IF cursor.page = 1
                THEN /\ last'.result = "FirstPage"
                     /\ user_states' = user_states
                ELSE /\ last'.result = "Shown"
                     /\ user_states' =
                          put(user_states, user_id,
                              [genre |-> cursor.genre, page |-> cursor.page - 1])]_vars

\* previous moved the cursor from page 2 back to page 1
C28_Witness ==
  /\ last.op = "prev"
  /\ last.result = "Shown"
  /\ user_states[last.user].page = 1
  /\ last.shown[1].page = 1
  /\ last.shown[1].category = Hind

\* previous was refused at page 1
C28_Refused ==
  /\ last.op = "prev"
  /\ last.result = "FirstPage"
  /\ user_states[last.user].page = 1

\* the rows of a category in a table
CategoryRows(table, category) ==
  {i \in 1..Len(table) : table[i].category = category}

\* the position of row i among the rows of its category, by code ascending
RankOf(table, i) ==
  1 + Cardinality({j \in CategoryRows(table, table[i].category) :
                     code_before(table[j].code, table[i].code)})

\* the listing is the page of the category's entries by code ascending, with
\* the count of all entries of the category
IsPageOf(l, table) ==
  LET rows == CategoryRows(table, l.category)
      first == (l.page - 1) * l.per_page + 1
      onpage == {i \in rows : RankOf(table, i) \in first..(l.page * l.per_page)}
  IN  /\ l.total_count = Cardinality(rows)
      /\ Len(l.movies) = Cardinality(onpage)
      /\ \A k \in 1..Len(l.movies) :
           \E i \in onpage : /\ RankOf(table, i) = first + k - 1
                             /\ l.movies[k] = table[i]

\* C29: listCategory(category, page, pageSize) is a pure read: it writes
\* nothing and returns, of the catalog entries of the category sorted by code
\* ascending, those at the positions (page-1)*pageSize+1 .. page*pageSize,
\* with totalCount the number of all entries of the category
C29_ListCategoryPage ==
  [][last'.op = "list" /\ last'.read =>
       /\ movies' = movies
       /\ videos' = videos
       /\ pending_table' = pending_table
       /\ IsPageOf(last', movies)]_vars

\* page 2 of size 8 of a category of 10 entries: the entries 9 and 10, count 10
C29_Witness ==
  /\ last.op = "list"
  /\ last.read
  /\ last.category = Hind
  /\ last.page = 2
  /\ last.per_page = 8
  /\ last.total_count = 10
  /\ Len(last.movies) = 2
  /\ last.movies[1].code = <<"a", "1">>
  /\ last.movies[2].code = <<"b", "1">>

\* C30 as stated: promotion of one code by two users is not mutually
\* excluded: every commit attempt of a user who holds a session for the code,
\* with store calls that go through, performs the catalog write, and the entry
\* that remains is the one of the later commit
C30_BothCommitsWrite ==
  [][\A user_id \in Pair, raw \in PairTexts :
       \/ MsgCommitGenre(user_id, strip(raw), TRUE, TRUE, TRUE)
       \/ MsgNewCategoryName(user_id, strip(raw), TRUE, TRUE, TRUE)
       => /\ last'.result = "Committed"
          /\ get_movie_by_code(movies', last'.code) # <<>>
          /\ get_movie_by_code(movies', last'.code)[1].title = last'.title
          /\ get_movie_by_code(movies', last'.code)[1].category = last'.category]_vars

\* C30 as amended: the commits of two users for one code run one after the
\* other; a commit performs the catalog write only if it still reads a
\* pending row of the code, and then the one entry of the code is the one it
\* wrote (the later commit wins); if the pending row is gone the commit aborts
\* with DraftMissing, writes nothing, and the entry of the earlier commit stays
C30_LaterCommitNeedsDraft ==
  [][IsCommit(last') =>
       /\ last'.result \in {"Committed", "CommittedDraftKept"} =>
            /\ InPending(last'.code)
            /\ last'.draft # <<>>
            /\ Cardinality(RowsOf(movies', last'.code)) = 1
            /\ get_movie_by_code(movies', last'.code) = <<EntryOf(last', last'.draft[1])>>
       /\ ~InPending(last'.code) =>
            /\ last'.result = "DraftMissing"
            /\ movies' = movies
       /\ last'.result \in {"DraftMissing", "PersistenceFailure"} => movies' = movies]_vars

\* user 2 reached the commit step after user 1 committed the same code: the
\* commit aborted and the entry of user 1 stays
C30_Witness ==
  /\ IsCommit(last)
  /\ last.user = 2
  /\ last.result = "DraftMissing"
  /\ last.replaced # <<>>
  /\ last.replaced[1].title # last.title
  /\ get_movie_by_code(movies, last.code) = last.replaced
  /\ 1 \notin DOMAIN pending_movies

\* both commits wrote: the first left the pending row, the second replaced
\* the entry of the first
C30_BothWrote ==
  /\ IsCommit(last)
  /\ last.user = 2
  /\ last.result = "Committed"
  /\ last.replaced # <<>>
  /\ last.replaced[1].title # last.title
  /\ get_movie_by_code(movies, last.code)[1].title = last.title
  /\ 1 \notin DOMAIN pending_movies

\* the rows of a table whose code is not the code, in their order
WithoutCode(table, code) ==
  LET Other(row) == row.code # code
  IN  SelectSeq(table, Other)

\* C31: a pending draft is removed only by a commit of its own code that goes
\* through: that commit removes the drafts of its code and no other, an ingest
\* only adds drafts, and every other handler run (lookup, listing of the
\* drafts, selection, title, failed commit, browsing) leaves the pending rows as
\* they were
C31_DraftRemovedByOwnCommit ==
  [][/\ \A c \in CodeInputs :
          InPending(c) /\ ~InPending(c)'
            => IsCommit(last') /\ last'.result = "Committed" /\ last'.code = c
     /\ IF IsCommit(last') /\ last'.result = "Committed"
          THEN pending_table' = WithoutCode(pending_table, last'.code)
        ELSE IF last'.op = "ingest"
          THEN /\ Len(pending_table') >= Len(pending_table)
               /\ SubSeq(pending_table', 1, Len(pending_table)) = pending_table
        ELSE pending_table' = pending_table]_vars

\* the commit of A1 went through and removed its draft; the draft of B2, never
\* promoted, is still there
C31_Witness ==
  /\ IsCommit(last)
  /\ last.result = "Committed"
  /\ last.code = CodeA1
  /\ ~InPending(CodeA1)
  /\ InPending(CodeB2)
  /\ InCatalog(CodeA1)
  /\ ~InCatalog(CodeB2)

\* the codes of the rows of a table
CodesOf(table) == {table[i].code : i \in 1..Len(table)}

\* C32: the catalog holds at most one entry per code; a commit for a code
\* that has an entry leaves the number of entries and the entries of the other
\* codes as they were, and the entry of the code is the one made of the new
\* title, the new category and the media fields of the draft (nothing of the
\* old entry is kept)
C32_OneEntryPerCode ==
  /\ [](\A i, j \in 1..Len(movies) : movies[i].code = movies[j].code => i = j)
  /\ [][(IsCommit(last') /\ last'.result \in {"Committed", "CommittedDraftKept"}
           /\ InCatalog(last'.code))
         => /\ Len(movies') = Len(movies)
            /\ CodesOf(movies') = CodesOf(movies)
            /\ \A i \in 1..Len(movies) :
                 movies[i].code # last'.code
                   => \E j \in 1..Len(movies') : movies'[j] = movies[i]
            /\ \A j \in 1..Len(movies') :
                 movies'[j].code = last'.code
                   => movies'[j] = EntryOf(last', last'.draft[1])]_vars

\* the commit of A1 met an entry of A1 with another category and another
\* message: the catalog of twelve entries still has twelve, one of them of A1
C32_Witness ==
  /\ IsCommit(last)
  /\ last.result = "Committed"
  /\ last.replaced # <<>>
  /\ last.replaced[1].category # last.category
  /\ last.replaced[1].channel_message_id # last.draft[1].channel_message_id
  /\ Len(movies) = MaxCatalog
  /\ Cardinality(RowsOf(movies, last.code)) = 1
  /\ movies[Len(movies)].category = last.category

\* C33: the catalog is written only by a commit that goes through: a step
\* that changes the catalog is a commit that read a pending row of its code and
\* wrote the entry made from it, every other step (ingest, lookup, listing
\* and selection of drafts, title, menu, browsing, failed commit) leaves the
\* catalog as it was, and the code of every entry has been a pending draft
C33_CatalogOnlyByCommit ==
  /\ [](CodesOf(movies) \subseteq everDrafted)
  /\ [][IF IsCommit(last') /\ last'.result \in {"Committed", "CommittedDraftKept"}
          THEN /\ InPending(last'.code)
               /\ last'.draft = get_pending_movie_by_code(pending_table, last'.code)
               /\ movies' = Append(WithoutCode(movies, last'.code),
                                   EntryOf(last', last'.draft[1]))
          ELSE movies' = movies]_vars

\* A1 was promoted from its draft; the post that carries A1 and B2 arrived
\* again and the catalog still holds the entry of A1 alone
C33_Witness ==
  /\ last.op = "ingest"
  /\ last.result = "Indexed"
  /\ last.failing = {}
  /\ CodesOf(movies) = {CodeA1}
  /\ InPending(CodeA1)
  /\ InPending(CodeB2)
  /\ <<CodeA1, "reingest">> \in collided

\* the positions of a text where a marker is followed by a word character
TokenStarts(text) ==
  {i \in 1..Len(text) : text[i] = "#" /\ i < Len(text) /\ text[i + 1] \in WordChars}

\* the maximal substring of a marker and word characters that starts at i
TokenAt(text, i) ==
  SubSeq(text, i,
         CHOOSE j \in (i + 1)..Len(text) :
           /\ \A k \in (i + 1)..j : text[k] \in WordChars
           /\ j = Len(text) \/ text[j + 1] \notin WordChars)

\* the starts of the tokens that no earlier start repeats
FirstStarts(text) ==
  {i \in TokenStarts(text) :
     \A j \in TokenStarts(text) : j < i => TokenAt(text, j) # TokenAt(text, i)}

\* the distinct tokens in the order of their first occurrence
DistinctTokens(text) ==
  [k \in 1..Cardinality(FirstStarts(text)) |->
     TokenAt(text, CHOOSE i \in FirstStarts(text) :
                     Cardinality({j \in FirstStarts(text) : j < i}) = k - 1)]

\* C34: the codes extracted from a caption are exactly its maximal substrings
\* of a marker followed by word characters, in the order of their first
\* occurrence, each once ("#A #A" gives one code, "#A #a" two), and none for a
\* caption that is empty or has no hashtag
C34_DistinctMaximalTokens ==
  last.op = "extract" =>
    LET codes == split(last.codes)
        tokens == DistinctTokens(last.caption)
    IN  /\ Len(codes) = Len(tokens)
        /\ \A k \in 1..Len(codes) : codes[k] = tokens[k]

\* the extraction keeps every occurrence: the codes are the tokens at all the
\* starts, in their order
C34_EveryOccurrence ==
  last.op = "extract" =>
    LET codes == split(last.codes)
        starts == TokenStarts(last.caption)
    IN  /\ Len(codes) = Cardinality(starts)
        /\ \A k \in 1..Len(codes) :
             codes[k] = TokenAt(last.caption,
                                CHOOSE i \in starts :
                                  Cardinality({j \in starts : j < i}) = k - 1)

\* the moves of the step of a session: it stays, or goes from title to
\* category, or from category to new_category
StepMoves ==
  {<<s, s>> : s \in {"title", "category", "new_category"}}
    \cup {<<"title", "category">>, <<"category", "new_category">>}

\* C35: the step of a session only moves forward, title, category,
\* new_category, cleared: a session starts at step title by a selection; while
\* no selection replaces it its code stays and its step stays or moves one step
\* forward; it is cleared only from step category or new_category; a session at
\* step category or new_category holds a collected title; and no step of a user
\* whose session is at step title changes the catalog
C35_StepsForward ==
  /\ [](\A user_id \in Users :
          (AtStep(user_id, "category") \/ AtStep(user_id, "new_category"))
            => /\ "title" \in DOMAIN pending_movies[user_id]
               /\ pending_movies[user_id].title # <<>>)
  /\ [][\A user_id \in Users :
          /\ (SessionOf(user_id) = <<>> /\ SessionOf(user_id)' # <<>>)
               => /\ last'.op = "select"
                  /\ SessionOf(user_id)'[1].step = "title"
          /\ (SessionOf(user_id) # <<>> /\ SessionOf(user_id)' # <<>>
                /\ last'.op # "select")
               => /\ SessionOf(user_id)'[1].code = SessionOf(user_id)[1].code
                  /\ <<SessionOf(user_id)[1].step, SessionOf(user_id)'[1].step>>
                       \in StepMoves
          /\ (SessionOf(user_id) # <<>> /\ SessionOf(user_id)' = <<>>)
               => /\ IsCommit(last')
                  /\ SessionOf(user_id)[1].step \in {"category", "new_category"}
          /\ AtStep(user_id, "title") => movies' = movies]_vars

\* a session went through title, category and new_category and was cleared by
\* the commit under the category the curator named
C35_Witness ==
  /\ IsCommit(last)
  /\ last.result = "Committed"
  /\ last.title = TextDune
  /\ last.category = TextDune
  /\ last.user \notin DOMAIN pending_movies
  /\ InCatalog(last.code)

\* C36: a commit that fails with DraftMissing because the draft of its code
\* is gone aborts the workflow: after it the user has no curation session, so
\* that a later text of the user is not taken as input of the aborted workflow
C36_MissingDraftEndsSession ==
  (IsCommit(last) /\ last.result = "DraftMissing" /\ ~InPending(last.code))
    => last.user \notin DOMAIN pending_movies

\* the newest of the videos at the positions of a non-empty set
NewestOf(rows) ==
  videos[CHOOSE i \in rows : \A j \in rows : videos[i].date >= videos[j].date]

\* C37: a lookup returns at most one result, and a video it returns for the
\* exact code, its store calls going through, is the newest video that carries
\* the hashtag of the code as a whole member of its code string; no other
\* video is returned with it or in its place
C37_NewestCarrierReturned ==
  IsSearch(last)
    => /\ Len(last.results) <= 1
       /\ (last.ok /\ last.tried = <<>> /\ last.results # <<>>
             /\ last.results[1].type = "video")
            => LET carrying ==
                     {i \in 1..Len(videos) :
                        carries_whole(videos[i].codes, hashtag_of(last.code))}
               IN  /\ carrying # {}
                   /\ last.results[1].row = NewestOf(carrying)

\* the same with the test the lookup makes: the video returned for the exact
\* code is the newest video whose code string contains the hashtag
C37_NewestMatchReturned ==
  IsSearch(last)
    => /\ Len(last.results) <= 1
       /\ (last.ok /\ last.tried = <<>> /\ last.results # <<>>
             /\ last.results[1].type = "video")
            => LET matching_rows ==
                     {i \in 1..Len(videos) :
                        carries(videos[i].codes, hashtag_of(last.code))}
               IN  /\ matching_rows # {}
                   /\ last.results[1].row = NewestOf(matching_rows)

\* C38: the browse cursor of a user: the button of a category sets it to that
\* category at page 1, the back button removes it, the next-page and the
\* previous-page button of a user without a cursor are refused and create
\* none, and the page of a cursor is at least 1
C38_CursorLifecycle ==
  /\ [](\A user_id \in DOMAIN user_states : user_states[user_id].page >= 1)
  /\ [][\A user_id \in Users :
          /\ handle_message(user_id, BtnHindCount)
               => CursorOf(user_id)' = <<[genre |-> Hind, page |-> 1]>>
          /\ handle_message(user_id, BtnBackToGenres)
               => CursorOf(user_id)' = <<>>
          /\ (CursorOf(user_id) = <<>>
                /\ \/ handle_message(user_id, BtnNextPage)
                   \/ handle_message(user_id, BtnPrevPage))
               => /\ last'.result = "NoCursor"
                  /\ CursorOf(user_id)' = <<>>]_vars

\* C39: an ingest of a post with media whose save of the item fails writes
\* nothing: no video, no pending row for any code of the caption, and the
\* catalog is as it was
C39_FailedSaveWritesNothing ==
  [][\A chat_id \in Chats, message \in Media, mcaption \in Opt(Captions) :
       (media_of(message.video, message.video_note) # <<>>
          /\ channel_post_handler(chat_id, message, mcaption, FALSE, {}))
         => /\ last'.result = "PersistenceFailure"
            /\ videos' = videos
            /\ pending_table' = pending_table
            /\ movies' = movies]_vars

\* the save of the post of message 2 failed: the drafts of A1 and B2 are those
\* the post of message 1 left, the catalog holds the entry of A1 alone
C39_Witness ==
  /\ last.op = "ingest"
  /\ last.result = "PersistenceFailure"
  /\ last.message_id = 2
  /\ \A i \in 1..Len(videos) : videos[i].message_id = 1
  /\ InPending(CodeB2)
  /\ \A i \in 1..Len(pending_table) : pending_table[i].channel_message_id = 1
  /\ CodesOf(movies) = {CodeA1}

====
